---- MODULE Spec2Model ----
(***************************************************************************)
(* The FalAI video adapter of tsi-json (api/services/falaiService.js), its *)
(* routes POST /generate-videos-falai and GET /falai-status, the server    *)
(* process around them (server.js: start, health endpoint, catch-all,      *)
(* error middleware, shutdown on SIGTERM and SIGINT), the logger and its   *)
(* request middleware (utils/logger.js), the startup manager (startup.js)  *)
(* and the React client (APISelector, VideoGenerator).                     *)
(*                                                                         *)
(* Conventions.  A JavaScript string that the code parses is a sequence of *)
(* one-character strings; an error message is a sequence of word tokens    *)
(* (punctuation is a token of its own, String.includes is "contiguous      *)
(* sub-sequence", case sensitive).  An optional object field is a field    *)
(* that may be missing from the record's DOMAIN, or, for inputs, a tagged  *)
(* value of type "undefined".  Money is counted in mills (1/1000 USD):     *)
(* 0.40 USD = 400 mills, one cent = 10 mills.  Array indices are the       *)
(* code's 0-based indices; TLA+ sequences are 1-based, so segments[i] of   *)
(* the code is segments[i + 1] here.                                       *)
(***************************************************************************)
EXTENDS Integers, Sequences, FiniteSets, TLC

VARIABLES
    initialized,   \* FalAIService.initialized (set once by the constructor)
    pc,            \* where the request handler stands
    segments,      \* argument of generateVideosForAllSegments
    options,       \* argument of generateVideosForAllSegments (merged by the route)
    i,             \* loop index of generateVideosForAllSegments (0-based)
    results,       \* const results = []
    errors,        \* const errors = []
    pending,       \* the call awaiting axios: [prompt, requestData] (or NoPending)
    inflight,      \* indices whose HTTP request is outstanding
    issued,        \* history: every HTTP request issued, [index, gap]
    attempted,     \* history: indices handed to generateVideoFromSegment
    thrown,        \* history: errors thrown by generateVideoFromSegment, with their cause
    sinceDone,     \* ms elapsed since the previous HTTP request settled
    batchResult,   \* return value of generateVideosForAllSegments (or NoResult)
    response,      \* HTTP response of the route (or NoResponse)
    env,           \* process.env: the names of the variables that are set
    regenerating,  \* history: an earlier request or call has completed
    callReturn,    \* outcome of a direct generateVideoFromSegment call (or NoCall)
    statusPc,      \* where the GET /falai-status handler stands
    probed,        \* history: the status request sent GET /health to the provider
    statusResult,  \* return value of getServiceStatus (or NoResult)
    statusResponse, \* HTTP response of GET /falai-status (or NoResponse)
    nodeEnv,       \* process.env.NODE_ENV ("unset" when it is not set)
    build,         \* the React build: "none", "noIndex" (no index.html) or "full"
    proc,          \* where the server process stands
    exitCode,      \* argument of process.exit (NotExited while the process runs)
    loaded,        \* the route modules imported so far
    warnings,      \* warnings of validateEnvironment
    httpResponse,  \* answer of the server to the last request it served itself
    errorLog,      \* what the error middleware logged last (or NoLog)
    handled,       \* per client address: API requests that reached their handler
                   \* in the current one-minute window
    serviceStatus, \* APISelector: serviceStatus, per provider id
    selectorLoading, \* APISelector: loading
    selectedAPI,   \* VideoGenerator: selectedAPI
    generating,    \* VideoGenerator: loading
    lastSelect,    \* history: the last click on an option of the selector
    lastUse,       \* history: the last generation request that was started
    logOptions,    \* the options given to new Logger(name, options)
    logger,        \* the Logger object that the middleware and the handlers share
    requestIds,    \* req.requestId of the requests being handled (NoRequestId: none)
    lastLog,       \* history: the last call of Logger._log
    connections,   \* the connections the HTTP server holds open
    sinceSignal,   \* ms elapsed since the first SIGTERM or SIGINT
    forceTimers,   \* the pending forced-shutdown timers: the times (in sinceSignal) they fire
    startPc,       \* startup.js: where main() stands
    startArgs,     \* startup.js: process.argv.slice(2)
    checksRun,     \* history: the checks main() has run, with their results
    startExit,     \* startup.js: argument of process.exit (NotExited while it runs)
    uiVideos,      \* VideoGenerator: videos, as the provider whose request produced
                   \* them ("none": null)
    uiError,       \* VideoGenerator: error, as the provider whose request failed
                   \* ("none": null)
    videoOptions,  \* VideoGenerator: videoOptions (duration and generateAudio)
    requestFor,    \* history: the provider selected when the last request was issued
    outstanding    \* history: the generation requests that have not settled

\* the state of the FalAI service and of its POST route
batchVars == <<initialized, pc, segments, options, i, results, errors, pending,
               inflight, issued, attempted, thrown, sinceDone, batchResult, response>>

\* the state of the status probe
statusVars == <<statusPc, probed, statusResult, statusResponse>>

\* the state of the server process (server.js)
serverVars == <<nodeEnv, build, proc, exitCode, loaded, warnings, httpResponse, errorLog>>

\* the state of the React client (APISelector and VideoGenerator)
clientVars == <<serviceStatus, selectorLoading, selectedAPI, generating, lastSelect,
                lastUse>>

\* the state of the logger (utils/logger.js) and of its request middleware
logVars == <<logOptions, logger, requestIds, lastLog>>

\* the state of the shutdown of the server process
shutdownVars == <<connections, sinceSignal, forceTimers>>

\* the state of the startup script (startup.js)
startVars == <<startPc, startArgs, checksRun, startExit>>

\* the results and options of the VideoGenerator component
generatorVars == <<uiVideos, uiError, videoOptions, requestFor, outstanding>>

\* the state beside the server process, the FalAI routes and the provider
\* selection of the client
otherVars == <<logVars, shutdownVars, startVars, generatorVars>>

\* the state of the FalAI adapter and of its two routes
falaiVars == <<batchVars, regenerating, callReturn, statusVars>>

\* what lies around the FalAI adapter: the server process and its clients
aroundService == <<serverVars, handled, clientVars>>

\* what a request to POST /generate-videos-falai leaves alone
aroundBatch == <<env, otherVars, regenerating, callReturn, statusVars, aroundService>>

vars == <<batchVars, aroundBatch>>

---------------------------------------------------------------------------
(* Bounds of the model *)

MaxSegments == 3        \* longest segments array of a batch request
TickMs == 500           \* granularity of the modelled clock
MaxBurst == 11          \* most requests of one client in one window
MaxConnections == 2     \* most connections the server holds open
MaxRequests == 2        \* most generation requests counted as outstanding
ShutdownTickMs == 2500  \* granularity of the clock during a shutdown

(* Program constants *)

DelayMs == 1000         \* setTimeout(resolve, 1000)
DefaultSeconds == 8     \* parseInt(...) || 8
RateAudioMills == 400   \* 0.40 USD per second with audio
RateSilentMills == 200  \* 0.20 USD per second without audio
Quota == 10             \* documented: 10 requests/minute per IP

---------------------------------------------------------------------------
(* JavaScript values *)

Undefined == [type |-> "undefined", str |-> <<>>, num |-> 0]
Str(s) == [type |-> "string", str |-> s, num |-> 0]
Num(n) == [type |-> "number", str |-> <<>>, num |-> n]

\* JavaScript truthiness of a tagged value (used by `x || default`).
Truthy(v) ==
    CASE v.type = "undefined" -> FALSE
      [] v.type = "string" -> v.str # <<>>
      [] v.type = "number" -> v.num # 0

\* a || b
OrElse(a, b) == IF Truthy(a) THEN a ELSE b

Digits == <<"0", "1", "2", "3", "4", "5", "6", "7", "8", "9">>

IsDigit(c) == \E d \in 1..10 : Digits[d] = c

DigitValue(c) == (CHOOSE d \in 1..10 : Digits[d] = c) - 1

\* String.includes on token sequences: needle is a contiguous part of msg.
Includes(msg, needle) ==
    \E k \in 0..(Len(msg) - Len(needle)) :
        \A j \in 1..Len(needle) : msg[k + j] = needle[j]

---------------------------------------------------------------------------
(* process.env and the FalAIService constructor *)

\* process.env.X is truthy: the variable is set to a non-empty string
IsSet(environment, name) == name \in environment

\* Faulty variant of Initialize: initialized is set before the key is looked at.
InitializeAlways(environment) == TRUE

\* constructor and initialize(): this.apiKey = FAL_AI_API_KEY || FALAI_API_KEY,
\* and initialized becomes true only when the key is truthy
Initialize(environment) ==
    IsSet(environment, "FAL_AI_API_KEY") \/ IsSet(environment, "FALAI_API_KEY")

---------------------------------------------------------------------------
(* FalAIService.calculateCost *)

\* Faulty variant of StripNonDigits: the replace is forgotten.
KeepAllChars(s) == s

\* duration.replace(/[^0-9]/g, '')
StripNonDigits(s) == SelectSeq(s, IsDigit)

RECURSIVE DigitPrefixLen(_)
\* length of the longest prefix of s made of decimal digits
DigitPrefixLen(s) ==
    IF s = <<>> \/ ~IsDigit(Head(s)) THEN 0 ELSE 1 + DigitPrefixLen(Tail(s))

RECURSIVE DecimalValue(_)
\* value of a sequence of decimal digits, most significant first
DecimalValue(ds) ==
    IF ds = <<>> THEN 0
    ELSE 10 * DecimalValue(SubSeq(ds, 1, Len(ds) - 1)) + DigitValue(ds[Len(ds)])

\* parseInt(s) of a string without sign, blank or radix prefix: the number
\* written by the leading digits, NaN when the string starts with no digit.
ParseInt(s) ==
    LET n == DigitPrefixLen(s)
    IN  IF n = 0 THEN [nan |-> TRUE, val |-> 0]
        ELSE [nan |-> FALSE, val |-> DecimalValue(SubSeq(s, 1, n))]

\* parseInt(duration.replace(/[^0-9]/g, '')) || 8
ParseSeconds(s) ==
    LET p == ParseInt(StripNonDigits(s))
    IN  IF p.nan \/ p.val = 0 THEN DefaultSeconds ELSE p.val

\* const baseRate = generateAudio ? 0.40 : 0.20
BaseRate(generateAudio) ==
    IF generateAudio THEN RateAudioMills ELSE RateSilentMills

\* calculateCost throws a TypeError when duration has no replace method
CalculateCostThrows(duration) == duration.type # "string"

\* calculateCost(duration, generateAudio) for a string duration, in mills
CalculateCost(duration, generateAudio) ==
    ParseSeconds(duration.str) * BaseRate(generateAudio)

---------------------------------------------------------------------------
(* Segments, as the caller supplies them.  Only the fields the adapter and *)
(* the route read are kept; segment_number 0 stands for "undefined".       *)

Segment(info, number, markers, character, timeline, dialogue, scene) ==
    [isNull |-> FALSE, segment_info |-> info, segment_number |-> number,
     continuity_markers |-> markers, character_description |-> character,
     action_timeline |-> timeline, dialogue |-> dialogue,
     scene_continuity |-> scene]

\* a standard-format segment carrying its own number
SegStandard(n) == Segment(TRUE, n, FALSE, TRUE, TRUE, TRUE, TRUE)
\* a segment without segment_info (only character_description)
SegNoInfo == Segment(FALSE, 0, FALSE, TRUE, FALSE, FALSE, FALSE)
\* an enhanced-format segment (continuity markers), complete
SegEnhanced(n) == Segment(TRUE, n, TRUE, TRUE, TRUE, TRUE, TRUE)
\* an enhanced-format segment whose character_description is missing
SegEnhancedPartial(n) == Segment(TRUE, n, TRUE, FALSE, TRUE, TRUE, TRUE)
\* an object with neither action_timeline.dialogue nor character_description
SegInvalid == Segment(TRUE, 1, FALSE, FALSE, TRUE, FALSE, FALSE)
\* a null element of the segments array
SegNull == [Segment(FALSE, 0, FALSE, FALSE, FALSE, FALSE, FALSE) EXCEPT !.isNull = TRUE]

\* segment.segment_info?.segment_number (0: undefined)
SegmentNumberOf(segment) ==
    IF segment.segment_info THEN segment.segment_number ELSE 0

---------------------------------------------------------------------------
(* Errors *)

\* new Error(message) / a TypeError raised by the runtime / an axios error
ErrorObj(name, message) ==
    [name |-> name, message |-> message, response |-> FALSE, status |-> 0,
     dataError |-> <<>>, code |-> "", request |-> FALSE]

\* axios rejection carrying an HTTP response (error.response, error.request)
HttpError(status, dataError) ==
    [ErrorObj("AxiosError", <<"Request", "failed", "with", "status", "code", ToString(status)>>)
        EXCEPT !.response = TRUE, !.status = status, !.dataError = dataError,
               !.request = TRUE]

\* axios rejection after the 300000 ms timeout (no response)
TimeoutError ==
    [ErrorObj("AxiosError", <<"timeout", "of", "300000ms", "exceeded">>)
        EXCEPT !.code = "ECONNABORTED", !.request = TRUE]

\* axios rejection when no response was received
NetworkError ==
    [ErrorObj("AxiosError", <<"Network", "Error">>) EXCEPT !.request = TRUE]

\* axios rejection before the request was sent (neither response nor request)
SetupError == ErrorObj("AxiosError", <<"Invalid", "URL">>)

\* an aborted request for which a response object is nevertheless attached
TimeoutWithResponse(status) ==
    [HttpError(status, <<>>) EXCEPT !.code = "ECONNABORTED"]

MsgNotInitializedSegment ==
    <<"FalAI", "service", "not", "initialized", ".", "Please", "configure", "FALAI_API_KEY">>
MsgNotInitializedBatch == <<"FalAI", "service", "not", "initialized">>
MsgBadRequestPrefix == <<"Invalid", "request", ":">>
MsgBadRequestDefault == <<"Bad", "request", "parameters">>
MsgInvalidKey ==
    <<"Invalid", "API", "key", ".", "Please", "check", "your", "FALAI_API_KEY">>
MsgCredits ==
    <<"Insufficient", "credits", ".", "Please", "add", "funds", "to", "your", "FalAI", "account">>
MsgRateLimit ==
    <<"Rate", "limit", "exceeded", ".", "Please", "wait", "and", "try", "again">>
MsgServer == <<"FalAI", "service", "error", ".", "Please", "try", "again", "later">>
MsgApiErrorPrefix(status) == <<"FalAI", "API", "error", "(", ToString(status), ")", ":">>
MsgUnknown == <<"Unknown", "error">>
MsgTimeout ==
    <<"Request", "timeout", ".", "Video", "generation", "is", "taking", "longer",
      "than", "expected">>
MsgNetwork ==
    <<"Network", "error", ".", "Please", "check", "your", "internet", "connection">>
MsgServicePrefix == <<"FalAI", "service", "error", ":">>
MsgReplaceNotFunction == <<"duration", ".", "replace", "is", "not", "a", "function">>
MsgReadOfUndefined(prop) ==
    <<"Cannot", "read", "properties", "of", "undefined", "(", "reading", prop, ")">>
MsgReadOfNull(prop) ==
    <<"Cannot", "read", "properties", "of", "null", "(", "reading", prop, ")">>

\* data.error || fallback
DataErrorOr(dataError, fallback) == IF dataError # <<>> THEN dataError ELSE fallback

\* the if / switch of the catch block of generateVideoFromSegment
TranslateError(error) ==
    IF error.response THEN
        CASE error.status = 400 ->
                ErrorObj("Error", MsgBadRequestPrefix \o DataErrorOr(error.dataError, MsgBadRequestDefault))
          [] error.status = 401 -> ErrorObj("Error", MsgInvalidKey)
          [] error.status = 402 -> ErrorObj("Error", MsgCredits)
          [] error.status = 429 -> ErrorObj("Error", MsgRateLimit)
          [] error.status = 500 -> ErrorObj("Error", MsgServer)
          [] OTHER ->
                ErrorObj("Error", MsgApiErrorPrefix(error.status) \o DataErrorOr(error.dataError, MsgUnknown))
    ELSE IF error.code = "ECONNABORTED" THEN ErrorObj("Error", MsgTimeout)
    ELSE IF error.request THEN ErrorObj("Error", MsgNetwork)
    ELSE ErrorObj("Error", MsgServicePrefix \o error.message)

---------------------------------------------------------------------------
(* FalAIService.createVideoPrompt *)

\* const isEnhanced = segment.segment_info?.continuity_markers ? true : false
IsEnhanced(segment) == segment.segment_info /\ segment.continuity_markers

\* the property whose read raises a TypeError in createVideoPrompt ("" if none):
\* the enhanced template dereferences character_description, action_timeline
\* and scene_continuity without optional chaining, in this order
PromptFailure(segment) ==
    IF ~IsEnhanced(segment) THEN ""
    ELSE IF ~segment.character_description THEN "current_state"
    ELSE IF ~segment.action_timeline THEN "dialogue"
    ELSE IF ~segment.scene_continuity THEN "camera_position"
    ELSE ""

CreateVideoPromptThrows(segment) == PromptFailure(segment) # ""

\* the prompt text, as tokens (the segment's texts are one token each)
CreateVideoPrompt(segment) ==
    IF IsEnhanced(segment) THEN
        <<"UGC", "style", "video", ":", "current_state", ".", "Dialogue", ":",
          (IF segment.dialogue THEN "dialogue" ELSE "undefined"),
          "Actions", ":", "Camera", ":", "camera_position",
          "Environment", ":", "props_in_frame", "Style", ":", "natural facial expressions">>
    ELSE
        <<"UGC", "style", "video", ":",
          (IF segment.character_description THEN "current_state" ELSE "Natural presenter"),
          ".", "Dialogue", ":", (IF segment.dialogue THEN "dialogue" ELSE ""),
          "Actions", ":", "Natural gestures while speaking",
          "Camera", ":",
          (IF segment.scene_continuity THEN "camera_position" ELSE "Medium shot, eye level"),
          "Style", ":", "Authentic">>

---------------------------------------------------------------------------
(* FalAIService.generateVideoFromSegment *)

\* '8s'
Str8s == Str(<<"8", "s">>)

\* options as a caller writes them; a key that is not given is undefined
Options(duration, generateAudio, falaiDuration, falaiAudio) ==
    [duration |-> duration, generateAudio |-> generateAudio,
     falaiDuration |-> falaiDuration, falaiAudio |-> falaiAudio]

\* const requestData = { prompt, duration: options.duration || '8s',
\*   generate_audio: options.generateAudio !== false, ...options.falaiOptions }
\* (aspect_ratio and resolution are passed through and read by nothing here)
RequestData(opts) ==
    [duration |->
        IF opts.falaiDuration.type # "undefined" THEN opts.falaiDuration
        ELSE OrElse(opts.duration, Str8s),
     generate_audio |->
        IF opts.falaiAudio # "undefined" THEN opts.falaiAudio = "true"
        ELSE opts.generateAudio # "false"]

NoRequest == [duration |-> Undefined, generate_audio |-> FALSE]
NoError == ErrorObj("", <<>>)
NoPending == [prompt |-> <<>>, requestData |-> NoRequest]

\* the value a call of generateVideoFromSegment ends with
Thrown(error) == [state |-> "thrown", error |-> error, value |-> [success |-> FALSE]]
Returned(value) == [state |-> "returned", error |-> NoError, value |-> value]
Posted(prompt, requestData) ==
    [state |-> "posted", error |-> NoError, value |-> [success |-> FALSE],
     prompt |-> prompt, requestData |-> requestData]

\* the catch block: logger.logError(error, { ..., prompt: this.createVideoPrompt(
\* segment, options) }) evaluates the prompt again before the error is translated
CatchBlock(segment, error) ==
    IF CreateVideoPromptThrows(segment)
    THEN Thrown(ErrorObj("TypeError", MsgReadOfUndefined(PromptFailure(segment))))
    ELSE Thrown(TranslateError(error))

\* generateVideoFromSegment up to `await this.axiosInstance.post(endpoint, requestData)`
PrepareCall(segment, opts) ==
    IF ~initialized THEN Thrown(ErrorObj("Error", MsgNotInitializedSegment))
    ELSE IF CreateVideoPromptThrows(segment)
    THEN CatchBlock(segment, ErrorObj("TypeError", MsgReadOfUndefined(PromptFailure(segment))))
    ELSE Posted(CreateVideoPrompt(segment), RequestData(opts))

\* the object returned after a 2xx response (status and requestId are copied
\* from the response and read by nothing here)
VideoResult(segment, call, outcome) ==
    [success |-> TRUE, segmentNumber |-> SegmentNumberOf(segment),
     videoUrl |-> IF outcome.video THEN "url" ELSE "undefined",
     duration |-> call.requestData.duration,
     cost |-> CalculateCost(call.requestData.duration, call.requestData.generate_audio),
     metadata |-> [prompt |-> call.prompt,
                   generateAudio |-> call.requestData.generate_audio]]

\* generateVideoFromSegment from the settling of the axios promise on
SettleCall(segment, call, outcome) ==
    IF outcome.kind = "fulfilled" THEN
        IF CalculateCostThrows(call.requestData.duration)
        THEN CatchBlock(segment, ErrorObj("TypeError", MsgReplaceNotFunction))
        ELSE Returned(VideoResult(segment, call, outcome))
    ELSE CatchBlock(segment, outcome.error)

\* Faulty variant of SegmentsAfterCall: the service normalises the segment it
\* was given in place (segment.segment_info = { segment_number: i + 1 }).
NumberSegmentInPlace(segs, idx) ==
    [segs EXCEPT ![idx + 1].segment_info = TRUE, ![idx + 1].segment_number = idx + 1]

\* the caller's array after generateVideoFromSegment(segments[idx]) has
\* settled: the method reads its argument and writes to none of its fields
SegmentsAfterCall(segs, idx) == segs

\* what the provider may answer to one request
Fulfilled(video) == [kind |-> "fulfilled", video |-> video, error |-> NoError]
Rejected(error) == [kind |-> "rejected", video |-> FALSE, error |-> error]

---------------------------------------------------------------------------
(* FalAIService.generateVideosForAllSegments *)

\* Faulty variant of ErrorEntry: the 0-based loop index is reported.
ErrorEntryZeroBased(idx, error) == [segmentIndex |-> idx, error |-> error.message]

\* errors.push({ segmentIndex: i + 1, error: error.message })
ErrorEntry(idx, error) == [segmentIndex |-> idx + 1, error |-> error.message]

\* results.push({ success: false, segmentNumber:
\*   segments[i].segment_info?.segment_number || i + 1, error: error.message })
FailureEntry(idx, segment, error) ==
    [success |-> FALSE,
     segmentNumber |-> IF SegmentNumberOf(segment) # 0
                       THEN SegmentNumberOf(segment) ELSE idx + 1,
     error |-> error.message]

\* Faulty variant of NextIndexAfterFailure: the loop is left (break).
AbortAfterFailure(L, count) == count

\* Faulty variant of NextIndexAfterFailure: a segment that failed for the
\* first time is tried once more (i-- in the catch block).
RetryOnceAfterFailure(L, count) ==
    IF \E k \in 1..Len(L.errors) : L.errors[k].segmentIndex = L.i + 1
    THEN L.i + 1 ELSE L.i

\* the catch block of the loop ends the iteration: the for statement's i++
\* (L is the loop's state when the error is caught, count is segments.length)
NextIndexAfterFailure(L, count) == L.i + 1

\* Faulty variant of Suspends: the call is not awaited.
NeverSuspends(call) == FALSE

\* `await this.generateVideoFromSegment(...)` suspends the loop while the
\* HTTP request of that call is outstanding
Suspends(call) == call.state = "posted"

\* the loop's variables together with the histories
LoopState(idx, res, errs, inf, iss, att, thr, gap) ==
    [i |-> idx, results |-> res, errors |-> errs, inflight |-> inf,
     issued |-> iss, attempted |-> att, thrown |-> thr, gap |-> gap,
     pending |-> NoPending, pc |-> "running"]

\* no provider answer: the call threw before its request was sent
NoCause == [kind |-> "none", video |-> FALSE, error |-> NoError]

\* the catch block of the loop, for the error of segments[L.i]; cause is the
\* provider's answer that made generateVideoFromSegment throw (history only)
CatchInLoop(segs, L, error, cause) ==
    [L EXCEPT !.errors = Append(@, ErrorEntry(L.i, error)),
              !.results = Append(@, FailureEntry(L.i, segs[L.i + 1], error)),
              !.thrown = Append(@, [index |-> L.i, error |-> error, cause |-> cause]),
              !.i = NextIndexAfterFailure(L, Len(segs))]

RECURSIVE RunLoop(_, _, _)
\* for (let i = ...; i < segments.length; i++) { try { ... } catch { ... } }
\* run from index L.i until a call awaits its HTTP response or the loop ends;
\* a call that throws before its request is sent is caught in the same turn
RunLoop(segs, opts, L) ==
    IF L.i >= Len(segs) THEN [L EXCEPT !.pc = "finished"]
    ELSE
        LET call == PrepareCall(segs[L.i + 1], opts)
            tried == [L EXCEPT !.attempted = Append(@, L.i)]
            sent ==
                IF call.state = "posted"
                THEN [tried EXCEPT !.inflight = @ \cup {L.i},
                                   !.issued = Append(@, [index |-> L.i, gap |-> L.gap])]
                ELSE tried
        IN  IF Suspends(call)
            THEN [sent EXCEPT !.pending = [prompt |-> call.prompt,
                                           requestData |-> call.requestData],
                              !.pc = "awaitingProvider"]
            ELSE RunLoop(segs, opts, CatchInLoop(segs, sent, call.error, NoCause))

\* results.filter(r => r.success).length
SuccessCount(res) == Cardinality({k \in 1..Len(res) : res[k].success})

RECURSIVE SumFirstCost(_)
\* Faulty variant of SumCosts: the reduce returns r.cost instead of
\* sum + r.cost, so only one priced result is counted.
SumFirstCost(res) ==
    IF res = <<>> THEN 0
    ELSE IF Head(res).success /\ "cost" \in DOMAIN Head(res) /\ Head(res).cost # 0
         THEN Head(res).cost
         ELSE SumFirstCost(Tail(res))

RECURSIVE SumCosts(_)
\* results.filter(r => r.success && r.cost).reduce((sum, r) => sum + r.cost, 0)
SumCosts(res) ==
    IF res = <<>> THEN 0
    ELSE (IF Head(res).success /\ "cost" \in DOMAIN Head(res) /\ Head(res).cost # 0
          THEN Head(res).cost ELSE 0) + SumCosts(Tail(res))

\* Math.round(totalCost * 100) / 100, on mills
RoundToCents(mills) == ((mills + 5) \div 10) * 10

\* Faulty variant of FailureCount: the failures are derived from results.
FailureCountFromResults(res, errs) == Len(res)

\* failureCount: errors.length
FailureCount(res, errs) == Len(errs)

\* the object generateVideosForAllSegments returns
BatchReturn(segs, res, errs) ==
    LET common == [success |-> SuccessCount(res) > 0,
                   videos |-> res,
                   totalSegments |-> Len(segs),
                   successCount |-> SuccessCount(res),
                   failureCount |-> FailureCount(res, errs),
                   totalCost |-> RoundToCents(SumCosts(res))]
    IN  IF Len(errs) > 0
        THEN [success |-> common.success, videos |-> common.videos,
              totalSegments |-> common.totalSegments,
              successCount |-> common.successCount,
              failureCount |-> common.failureCount,
              totalCost |-> common.totalCost, errors |-> errs]
        ELSE common

---------------------------------------------------------------------------
(* router.post('/generate-videos-falai') *)

\* req.body: segments is missing, not an array, or an array
Body(kind, list, opts) == [kind |-> kind, list |-> list, options |-> opts]

\* the options object handed to the service: the defaults, then ...options,
\* which puts back every key the client gave, whatever its value
RouteOptions(o) ==
    LET defaults == [duration |-> OrElse(o.duration, Str8s),
                     generateAudio |-> IF o.generateAudio # "false" THEN "true" ELSE "false"]
    IN  [duration |-> IF o.duration.type # "undefined" THEN o.duration
                      ELSE defaults.duration,
         generateAudio |-> IF o.generateAudio # "undefined" THEN o.generateAudio
                           ELSE defaults.generateAudio,
         falaiDuration |-> o.falaiDuration,
         falaiAudio |-> o.falaiAudio]

\* !segment.action_timeline?.dialogue && !segment.character_description
IsInvalidSegment(segment) ==
    ~(segment.action_timeline /\ segment.dialogue) /\ ~segment.character_description

\* "Determine appropriate status code"
StatusFor(message) ==
    IF Includes(message, <<"API", "key">>) THEN 401
    ELSE IF Includes(message, <<"credits">>) THEN 402
    ELSE IF Includes(message, <<"rate", "limit">>) THEN 429
    ELSE IF Includes(message, <<"Invalid", "request">>) THEN 400
    ELSE 500

NoResponse == [status |-> 0]
NoResult == [none |-> TRUE]

\* res.status(400).json({ error, message })
Reject400(error) == [status |-> 400, error |-> error]

\* the catch block of the route
RouteCatch(error) ==
    [status |-> StatusFor(error.message), error |-> "Video generation failed",
     message |-> error.message, provider |-> "FalAI"]

\* res.json({ success, videos, metadata, errors })
RouteSuccess(result) ==
    LET metadata == [totalSegments |-> result.totalSegments,
                     successCount |-> result.successCount,
                     failureCount |-> result.failureCount,
                     totalCost |-> result.totalCost,
                     currency |-> "USD", provider |-> "FalAI"]
    IN  IF "errors" \in DOMAIN result
        THEN [status |-> 200, success |-> result.success, videos |-> result.videos,
              metadata |-> metadata, errors |-> result.errors]
        ELSE [status |-> 200, success |-> result.success, videos |-> result.videos,
              metadata |-> metadata]

---------------------------------------------------------------------------
(* FalAIService.getServiceStatus and router.get('/falai-status') *)

\* Faulty variant of StatusAfterProbe: the rejection of the probe is swallowed.
StatusAvailableAlways(outcome) == [available |-> TRUE]

\* if (!this.initialized) return { available: false, reason: ... }
StatusNotInitialized == [available |-> FALSE, reason |-> "API key not configured"]

\* try { await this.axiosInstance.get('/health', ...); return { available: true } }
\* catch { return { available: false, reason: 'Service unavailable' } }
StatusAfterProbe(outcome) ==
    IF outcome.kind = "fulfilled"
    THEN [available |-> TRUE]
    ELSE [available |-> FALSE, reason |-> "Service unavailable"]

\* res.json({ provider: 'FalAI', ...status, timestamp }); the timestamp is
\* read by nothing here
StatusRoute(status) ==
    IF "reason" \in DOMAIN status
    THEN [status |-> 200, provider |-> "FalAI", available |-> status.available,
          reason |-> status.reason]
    ELSE [status |-> 200, provider |-> "FalAI", available |-> status.available]

---------------------------------------------------------------------------
(* server.js: start of the process *)

\* process.exit has not been called
NotExited == -1

\* the route modules, in the order in which server.js imports them
RouteModules ==
    <<"generate.js", "generateContinuation.js", "generate.plus.js",
      "generate.newcont.js", "generateVideosFalAI.js">>

\* Faulty variant of ValidationErrors: the required key is only warned about.
ValidationErrorsNone(environment) == {}

\* validateEnvironment: errors
ValidationErrors(environment) ==
    IF ~IsSet(environment, "OPENAI_API_KEY") THEN {"OPENAI_API_KEY is missing"} ELSE {}

\* validateEnvironment: warnings
ValidationWarnings(environment, buildDir) ==
    (IF /\ ~IsSet(environment, "GOOGLE_GEMINI_API_KEY")
        /\ ~IsSet(environment, "GOOGLE_APPLICATION_CREDENTIALS")
        /\ ~IsSet(environment, "KIEAI_API_KEY")
     THEN {"No video generation API keys found"} ELSE {})
    \cup (IF buildDir = "none" THEN {"Build directory not found"}
          ELSE IF buildDir = "noIndex" THEN {"index.html not found"}
          ELSE {})

---------------------------------------------------------------------------
(* server.js: the Express application *)

\* Faulty variant of AppStack: the catch-all is registered before the health
\* endpoint.
AppStackCatchAllFirst(buildDir) ==
    <<"apiRouters">> \o (IF buildDir # "none" THEN <<"static">> ELSE <<>>)
        \o <<"catchAll", "health">>

\* the layers that answer requests, in the order of their registration:
\* the five routers under /api, express.static when the build directory
\* exists, GET /api/health, GET *
AppStack(buildDir) ==
    <<"apiRouters">> \o (IF buildDir # "none" THEN <<"static">> ELSE <<>>)
        \o <<"health", "catchAll">>

\* the paths the routers of the FalAI module answer to GET requests
RouterGetPaths == {"/api/falai-status"}

\* the files of a React build that express.static serves
StaticFiles(buildDir) ==
    IF buildDir = "full" THEN {"/", "/index.html", "/static/js/main.js"}
    ELSE IF buildDir = "noIndex" THEN {"/static/js/main.js"}
    ELSE {}

\* does the layer answer GET path (a layer that does not calls next())
Answers(layer, path, buildDir) ==
    CASE layer = "apiRouters" -> path \in RouterGetPaths
      [] layer = "static" -> path \in StaticFiles(buildDir)
      [] layer = "health" -> path = "/api/health"
      [] layer = "catchAll" -> TRUE

RECURSIVE FirstAnswering(_, _, _)
\* Express walks the stack in order; the first layer that answers ends it
FirstAnswering(stack, path, buildDir) ==
    IF stack = <<>> THEN "none"
    ELSE IF Answers(Head(stack), path, buildDir) THEN Head(stack)
    ELSE FirstAnswering(Tail(stack), path, buildDir)

\* apis: { openai: !!OPENAI_API_KEY, gemini: !!GOOGLE_GEMINI_API_KEY,
\*         vertex: !!GOOGLE_APPLICATION_CREDENTIALS, kieai: !!KIEAI_API_KEY }
HealthApis(environment) ==
    [openai |-> IsSet(environment, "OPENAI_API_KEY"),
     gemini |-> IsSet(environment, "GOOGLE_GEMINI_API_KEY"),
     vertex |-> IsSet(environment, "GOOGLE_APPLICATION_CREDENTIALS"),
     kieai |-> IsSet(environment, "KIEAI_API_KEY")]

\* the answer of the layer to GET path (sent: res.sendFile succeeded);
\* timestamp, uptime, node and memory of the health status are read by
\* nothing here
Serve(layer, path, environment, node, buildDir, sent) ==
    CASE layer = "health" ->
            [path |-> path, handler |-> layer, status |-> 200, body |-> "json",
             health |-> "ok",
             environment |-> IF node = "unset" THEN "development" ELSE node,
             apis |-> HealthApis(environment),
             buildAvailable |-> buildDir = "full"]
      [] layer = "catchAll" ->
            [path |-> path, handler |-> layer, body |-> "html",
             status |-> IF buildDir # "full" THEN 503 ELSE IF sent THEN 200 ELSE 500]
      [] layer = "static" ->
            [path |-> path, handler |-> layer, body |-> "file", status |-> 200]
      [] OTHER ->
            [path |-> path, handler |-> layer, body |-> "json", status |-> 200]

\* an error object handed to next(err), and the request it belongs to
ServerError(message, stack, status) ==
    [message |-> message, stack |-> stack, status |-> status]

Request(method, url) == [method |-> method, url |-> url]

\* nothing was logged by the error middleware
NoLog == [errorId |-> "none", logged |-> FALSE]

\* Faulty variant of IsDevelopment: the default of the health endpoint
\* (NODE_ENV || 'development') is applied to the error responses too.
IsDevelopmentUnlessSet(node) == node \in {"unset", "development"}

\* const isDevelopment = process.env.NODE_ENV === 'development'
IsDevelopment(node) == node = "development"

\* console.error(`ERROR [${errorId}] at ...`), Request, Error, Stack
ErrorLogEntry(err, req, errorId) ==
    [errorId |-> errorId, logged |-> TRUE, request |-> req,
     message |-> err.message, stack |-> err.stack]

\* res.status(err.status || 500).json({ error, errorId, message, ...details })
ErrorResponse(err, req, errorId, node) ==
    LET code == IF err.status # 0 THEN err.status ELSE 500
    IN  IF IsDevelopment(node)
        THEN [path |-> req.url, handler |-> "error", body |-> "json", status |-> code,
              error |-> "Internal server error", errorId |-> errorId,
              message |-> err.message, stack |-> err.stack, request |-> req]
        ELSE [path |-> req.url, handler |-> "error", body |-> "json", status |-> code,
              error |-> "Internal server error", errorId |-> errorId,
              message |-> "Something went wrong"]

---------------------------------------------------------------------------
(* server.js: what a request to a FalAI endpoint passes before its handler *)

\* app.use(logging), app.use(cors()), app.use(express.json(...))
ServerMiddleware == <<"requestLog", "cors", "json">>

\* router.post('/generate-videos-falai', handler) and
\* router.get('/falai-status', handler): no middleware before the handler
RouteMiddleware(req) == <<>>

\* the layers before the handler of a request
Chain(req) == ServerMiddleware \o RouteMiddleware(req)

\* the layer ends the request instead of calling next(): none of the
\* layers of server.js counts requests; express.json refuses a posted body
\* that is not JSON
Refuses(layer, req, wellFormed) ==
    layer = "json" /\ req.method = "POST" /\ ~wellFormed

\* the request is handed to the handler of its endpoint
ReachesHandler(req, wellFormed) ==
    \A k \in 1..Len(Chain(req)) : ~Refuses(Chain(req)[k], req, wellFormed)

---------------------------------------------------------------------------
(* The React client: APISelector and VideoGenerator *)

\* apiOptions: the ids of the providers the selector offers
Providers == {"gemini", "falai", "kieai"}

\* what fetch('/api/falai-status') followed by response.json() may give:
\* a JSON body (of any status), or a rejection
Body200(json) == [ok |-> TRUE, json |-> json]
FetchFailed == [ok |-> FALSE, json |-> [status |-> 0]]

\* status.falai = falaiData.available, or false in the catch block; a body
\* without the key leaves undefined ("unknown")
FalaiStatusFrom(answer) ==
    IF ~answer.ok THEN "unavailable"
    ELSE IF "available" \notin DOMAIN answer.json THEN "unknown"
    ELSE IF answer.json.available THEN "available" ELSE "unavailable"

\* the status object checkServiceAvailability builds: the FalAI answer, and
\* true for the two providers it does not ask
StatusAfterCheck(answer) ==
    [falai |-> FalaiStatusFrom(answer), gemini |-> "available", kieai |-> "available"]

\* the providers for which checkServiceAvailability sends a request
ProbedProviders == {"falai"}

\* handleGenerateVideos: the client function that is called for a provider
EndpointFor(apiId) ==
    IF apiId = "falai" THEN "/api/generate-videos-falai" ELSE "/api/generate-videos"

NoClick == [provider |-> "none", status |-> "unknown"]

---------------------------------------------------------------------------
(* The state machine *)

\* the primed variables of the batch, from the loop's state; when the loop
\* has ended the batch returns and the route answers in the same turn
Resume(segs, L) ==
    /\ i' = L.i
    /\ results' = L.results
    /\ errors' = L.errors
    /\ inflight' = L.inflight
    /\ issued' = L.issued
    /\ attempted' = L.attempted
    /\ thrown' = L.thrown
    /\ pending' = L.pending
    /\ IF L.pc = "finished"
       THEN /\ pc' = "responded"
            /\ batchResult' = BatchReturn(segs, L.results, L.errors)
            /\ response' = RouteSuccess(BatchReturn(segs, L.results, L.errors))
       ELSE /\ pc' = L.pc
            /\ batchResult' = NoResult
            /\ response' = NoResponse

\* the route answers without a batch result
Answer(resp) ==
    /\ pc' = "responded"
    /\ response' = resp
    /\ batchResult' = NoResult
    /\ UNCHANGED <<i, results, errors, inflight, issued, attempted, thrown, pending>>

\* A POST /generate-videos-falai request arrives: validation, then the batch
\* up to its first await.
Post(body) ==
    /\ pc = "idle"
    /\ segments' = body.list
    /\ options' = RouteOptions(body.options)
    /\ sinceDone' = 0
    /\ UNCHANGED <<initialized, aroundBatch>>
    /\ IF body.kind # "array" \/ body.list = <<>>
       THEN Answer(Reject400("Invalid request"))
       ELSE IF \E k \in 1..Len(body.list) : body.list[k].isNull
       THEN Answer(RouteCatch(ErrorObj("TypeError", MsgReadOfNull("action_timeline"))))
       ELSE IF \E k \in 1..Len(body.list) : IsInvalidSegment(body.list[k])
       THEN Answer(Reject400("Invalid segment structure"))
       ELSE IF ~initialized
       THEN Answer(RouteCatch(ErrorObj("Error", MsgNotInitializedBatch)))
       ELSE Resume(body.list,
                   RunLoop(body.list, RouteOptions(body.options),
                           LoopState(0, <<>>, <<>>, {}, <<>>, <<>>, <<>>, 0)))

\* The HTTP request of segments[i] settles: the rest of generateVideoFromSegment,
\* then the loop body after the await, up to the next await.
ProviderResponds(outcome) ==
    /\ pc = "awaitingProvider"
    /\ LET call == SettleCall(segments[i + 1], pending, outcome)
           L == [LoopState(i, results, errors, inflight \ {i}, issued, attempted,
                           thrown, 0) EXCEPT !.pending = NoPending]
       IN  IF call.state = "returned"
           THEN LET pushed == [L EXCEPT !.results = Append(@, call.value)]
                IN  IF i < Len(segments) - 1
                    THEN Resume(segments, [pushed EXCEPT !.pc = "delaying"])
                    ELSE Resume(segments,
                                RunLoop(segments, options, [pushed EXCEPT !.i = i + 1]))
           ELSE Resume(segments,
                       RunLoop(segments, options,
                               CatchInLoop(segments, L, call.error, outcome)))
    /\ sinceDone' = 0
    /\ segments' = SegmentsAfterCall(segments, i)
    /\ UNCHANGED <<initialized, options, aroundBatch>>

\* Faulty variant of TimerDue: the promise of the delay is never resolved.
TimerNeverDue(gap) == FALSE

\* setTimeout(resolve, 1000): the timer is due once its delay has elapsed
TimerDue(gap) == gap >= DelayMs

\* Time passes while the loop waits in setTimeout(resolve, 1000).
Tick ==
    /\ pc = "delaying"
    /\ sinceDone < DelayMs + TickMs
    /\ sinceDone' = sinceDone + TickMs
    /\ UNCHANGED <<initialized, pc, segments, options, i, results, errors, pending,
                   inflight, issued, attempted, thrown, batchResult, response,
                   aroundBatch>>

\* The timer fires (not before its delay has elapsed): i++ and the next iteration.
TimerFires ==
    /\ pc = "delaying"
    /\ TimerDue(sinceDone)
    /\ Resume(segments,
              RunLoop(segments, options,
                      LoopState(i + 1, results, errors, inflight, issued, attempted,
                                thrown, sinceDone)))
    /\ UNCHANGED <<initialized, segments, options, sinceDone, aroundBatch>>

\* no direct call has ended
NoCall == [state |-> "none", error |-> NoError, value |-> [success |-> FALSE]]

\* generateVideoFromSegment is called on its own (not from the batch): the
\* method up to its await, or up to its throw.
CallSegment(segment, opts) ==
    /\ pc = "idle"
    /\ segments' = <<segment>>
    /\ options' = opts
    /\ LET call == PrepareCall(segment, opts)
       IN  IF call.state = "posted"
           THEN /\ pc' = "awaitingCall"
                /\ pending' = [prompt |-> call.prompt, requestData |-> call.requestData]
                /\ inflight' = {0}
                /\ issued' = <<[index |-> 0, gap |-> 0]>>
                /\ thrown' = <<>>
                /\ callReturn' = NoCall
           ELSE /\ pc' = "responded"
                /\ pending' = NoPending
                /\ inflight' = {}
                /\ issued' = <<>>
                /\ thrown' = <<[index |-> 0, error |-> call.error, cause |-> NoCause]>>
                /\ callReturn' = call
    /\ i' = 0
    /\ results' = <<>>
    /\ errors' = <<>>
    /\ attempted' = <<0>>
    /\ sinceDone' = 0
    /\ batchResult' = NoResult
    /\ response' = NoResponse
    /\ UNCHANGED <<initialized, env, otherVars, regenerating, statusVars, aroundService>>

\* The HTTP request of a direct call settles: the rest of generateVideoFromSegment.
CallSettles(outcome) ==
    /\ pc = "awaitingCall"
    /\ LET call == SettleCall(segments[1], pending, outcome)
       IN  /\ callReturn' = call
           /\ thrown' = IF call.state = "thrown"
                         THEN <<[index |-> 0, error |-> call.error, cause |-> outcome]>>
                         ELSE <<>>
    /\ pc' = "responded"
    /\ segments' = SegmentsAfterCall(segments, 0)
    /\ pending' = NoPending
    /\ inflight' = {}
    /\ sinceDone' = 0
    /\ UNCHANGED <<initialized, options, i, results, errors, issued, attempted,
                   batchResult, response, env, otherVars, regenerating,
                   statusVars,
                   aroundService>>

\* The caller has its answer (the response was sent, or the direct call
\* returned or threw): the service is ready for the next request.
Completed ==
    /\ pc = "responded"
    /\ pc' = "idle"
    /\ regenerating' = TRUE
    /\ callReturn' = NoCall
    /\ UNCHANGED <<initialized, segments, options, i, results, errors, pending,
                   inflight, issued, attempted, thrown, sinceDone, batchResult,
                   response, env, otherVars, statusVars, aroundService>>

\* A GET /falai-status request arrives: getServiceStatus up to its await, or
\* the whole request when the service is not initialized.
GetStatus ==
    /\ statusPc \in {"idle", "answered"}
    /\ IF ~initialized
       THEN /\ statusPc' = "answered"
            /\ probed' = "no"
            /\ statusResult' = StatusNotInitialized
            /\ statusResponse' = StatusRoute(StatusNotInitialized)
       ELSE /\ statusPc' = "probing"
            /\ probed' = "sent"
            /\ statusResult' = NoResult
            /\ statusResponse' = NoResponse
    /\ UNCHANGED <<batchVars, env, otherVars, regenerating, callReturn, aroundService>>

\* GET /health of the provider settles: the rest of getServiceStatus and of
\* the route.
ProbeSettles(outcome) ==
    /\ statusPc = "probing"
    /\ statusPc' = "answered"
    /\ probed' = outcome.kind
    /\ statusResult' = StatusAfterProbe(outcome)
    /\ statusResponse' = StatusRoute(StatusAfterProbe(outcome))
    /\ UNCHANGED <<batchVars, env, otherVars, regenerating, callReturn, aroundService>>

\* server.js runs validateEnvironment and exits when it reports an error.
ValidateEnvironment ==
    /\ proc = "starting"
    /\ warnings' = ValidationWarnings(env, build)
    /\ IF ValidationErrors(env) # {}
       THEN proc' = "exited" /\ exitCode' = 1
       ELSE proc' = "loading" /\ exitCode' = exitCode
    /\ UNCHANGED <<env, otherVars, falaiVars, clientVars,
                   nodeEnv, build, loaded, httpResponse, errorLog,
                   handled>>

\* The route modules are imported one after the other (failAt = 0), or the
\* import of module failAt throws and the process exits.  Importing the FalAI
\* route constructs the FalAI service.
LoadRoutes(failAt) ==
    /\ proc = "loading"
    /\ IF failAt = 0
       THEN /\ loaded' = RouteModules
            /\ initialized' = Initialize(env)
            /\ proc' = "binding"
            /\ exitCode' = exitCode
       ELSE /\ loaded' = SubSeq(RouteModules, 1, failAt - 1)
            /\ initialized' = initialized
            /\ proc' = "exited"
            /\ exitCode' = 1
    /\ UNCHANGED <<env, otherVars,
                   pc, segments, options, i, results, errors, pending, inflight,
                   issued, attempted, thrown, sinceDone, batchResult, response,
                   regenerating, callReturn, statusVars, nodeEnv, build, warnings,
                   httpResponse, errorLog, handled, clientVars>>

\* app.listen: the 'listening' callback, or the 'error' event (exit 1).
Listen(bound) ==
    /\ proc = "binding"
    /\ IF bound
       THEN proc' = "listening" /\ exitCode' = exitCode
       ELSE proc' = "exited" /\ exitCode' = 1
    /\ UNCHANGED <<env, otherVars, falaiVars, clientVars,
                   nodeEnv, build, loaded, warnings, httpResponse,
                   errorLog, handled>>

\* A GET request that no router under /api answers.
Get(path, sent) ==
    /\ proc = "listening"
    /\ httpResponse' = Serve(FirstAnswering(AppStack(build), path, build), path,
                             env, nodeEnv, build, sent)
    /\ UNCHANGED <<env, otherVars, falaiVars, clientVars,
                   nodeEnv, build, proc, exitCode, loaded, warnings,
                   errorLog, handled>>

\* the error middleware: app.use((err, req, res, next) => ...)
HandleError(err, req, errorId) ==
    /\ errorLog' = ErrorLogEntry(err, req, errorId)
    /\ httpResponse' = ErrorResponse(err, req, errorId, nodeEnv)

\* A handler or a middleware hands an error to next(err).
FailRequest(err, req, errorId) ==
    /\ proc = "listening"
    /\ HandleError(err, req, errorId)
    /\ UNCHANGED <<env, otherVars, falaiVars, clientVars,
                   nodeEnv, build, proc, exitCode, loaded, warnings,
                   handled>>

\* A request for a FalAI endpoint arrives from a client address and passes
\* the layers before its handler (the handler itself is Post or GetStatus).
ApiRequest(client, req, wellFormed, errorId) ==
    /\ proc = "listening"
    /\ handled[client] < MaxBurst
    /\ IF ReachesHandler(req, wellFormed)
       THEN /\ handled' = [handled EXCEPT ![client] = @ + 1]
            /\ UNCHANGED <<httpResponse, errorLog>>
       ELSE /\ HandleError(ServerError("Unexpected token", "SyntaxError", 400),
                           req, errorId)
            /\ UNCHANGED handled
    /\ UNCHANGED <<env, otherVars, falaiVars, clientVars,
                   nodeEnv, build, proc, exitCode, loaded, warnings>>

\* One minute has passed: a new window starts for every client.
WindowElapses ==
    /\ proc = "listening"
    /\ handled' = [c \in DOMAIN handled |-> 0]
    /\ UNCHANGED <<env, otherVars, falaiVars, clientVars, serverVars>>

\* checkServiceAvailability starts (on mount, or by the refresh button, which
\* is disabled while a check is running).
CheckServiceAvailability ==
    /\ ~selectorLoading
    /\ selectorLoading' = TRUE
    /\ UNCHANGED <<env, otherVars, falaiVars, serverVars, handled, serviceStatus, selectedAPI,
                   generating, lastSelect, lastUse>>

\* fetch('/api/falai-status') settles: the rest of checkServiceAvailability.
StatusFetched(answer) ==
    /\ selectorLoading
    /\ serviceStatus' = StatusAfterCheck(answer)
    /\ selectorLoading' = FALSE
    /\ UNCHANGED <<env, otherVars, falaiVars, serverVars, handled, selectedAPI, generating,
                   lastSelect, lastUse>>

\* Faulty variant of SelectorDisabled: the selector stays usable while loading.
SelectorNeverDisabled(loading) == FALSE

\* <APISelector disabled={loading} />
SelectorDisabled(loading) == loading

\* Faulty variant of ButtonDisabled: the button stays usable while loading.
ButtonNeverDisabled(loading) == FALSE

\* <button onClick={handleGenerateVideos} disabled={loading}>
ButtonDisabled(loading) == loading

\* The user clicks an option: handleAPISelect, then handleAPIChange.
SelectAPI(apiId) ==
    /\ ~SelectorDisabled(generating)
    /\ selectedAPI' = apiId
    /\ uiVideos' = "none"
    /\ uiError' = "none"
    /\ lastSelect' = [provider |-> apiId, status |-> serviceStatus[apiId]]
    /\ UNCHANGED <<env, logVars, shutdownVars, startVars, falaiVars, serverVars, handled,
                   serviceStatus, selectorLoading, generating, lastUse, videoOptions,
                   requestFor, outstanding>>

\* The user changes an option of the FalAI panel (shown for FalAI only, its
\* inputs disabled while loading): handleVideoOptionsChange.
ChangeOption(key, value) ==
    /\ selectedAPI = "falai"
    /\ ~generating
    /\ videoOptions' = [videoOptions EXCEPT ![key] = value]
    /\ UNCHANGED <<env, logVars, shutdownVars, startVars, falaiVars, aroundService,
                   uiVideos, uiError, requestFor, outstanding>>

\* The user clicks the generate button (disabled while loading):
\* handleGenerateVideos up to its await.
StartGeneration ==
    /\ ~ButtonDisabled(generating)
    /\ outstanding < MaxRequests
    /\ generating' = TRUE
    /\ uiError' = "none"
    /\ requestFor' = selectedAPI
    /\ outstanding' = outstanding + 1
    /\ lastUse' = [provider |-> selectedAPI, status |-> serviceStatus[selectedAPI],
                   endpoint |-> EndpointFor(selectedAPI)]
    /\ UNCHANGED <<env, logVars, shutdownVars, startVars, falaiVars, serverVars, handled,
                   serviceStatus, selectorLoading, selectedAPI, lastSelect, uiVideos,
                   videoOptions>>

\* The generation request settles: setVideos(result.videos), or the catch
\* block (setError), and finally { setLoading(false) }.
GenerationSettles(ok) ==
    /\ outstanding > 0
    /\ outstanding' = outstanding - 1
    /\ generating' = FALSE
    /\ IF ok
       THEN uiVideos' = requestFor /\ uiError' = uiError
       ELSE uiVideos' = uiVideos /\ uiError' = requestFor
    /\ UNCHANGED <<env, logVars, shutdownVars, startVars, falaiVars, serverVars, handled,
                   serviceStatus, selectorLoading, selectedAPI, lastSelect, lastUse,
                   videoOptions, requestFor>>

---------------------------------------------------------------------------
(* utils/logger.js: the Logger class and the requestLogger middleware *)

LogLevel == [ERROR |-> 0, WARN |-> 1, INFO |-> 2, DEBUG |-> 3, TRACE |-> 4]

\* this.level = options.level || (NODE_ENV === 'development' ? DEBUG : INFO)
\* (the level option is a tagged value: Undefined when it is not given)
LevelOf(opts, node) ==
    IF Truthy(opts.level) THEN opts.level.num
    ELSE IF node = "development" THEN LogLevel.DEBUG ELSE LogLevel.INFO

\* this.requestId = null
NoRequestId == "null"

\* new Logger(name, options)
NewLogger(opts, node) ==
    [level |-> LevelOf(opts, node),
     writeToFile |-> opts.writeToFile,
     requestId |-> NoRequestId]

\* _formatMessage: this.requestId ? `[${this.requestId}]` : ''  (the tag is
\* the id between the brackets; "" stands for a line without a tag)
RequestIdTag(lg) ==
    IF lg.requestId = NoRequestId \/ lg.requestId = "" THEN "" ELSE lg.requestId

\* _log: if (level > this.level) return
Emits(lg, level) == ~(level > lg.level)

\* _log: the log files an emitted message is appended to
FilesWritten(lg, level) ==
    IF ~lg.writeToFile THEN {}
    ELSE IF level = LogLevel.ERROR THEN {"main", "error"} ELSE {"main"}

NothingLogged ==
    [by |-> "none", own |-> NoRequestId, level |-> LogLevel.INFO, emitted |-> FALSE,
     tag |-> "", files |-> {}]

\* One call of _log(level, ...) made while handling request `by` ("none": made
\* outside any request), whose req.requestId is `own`.
LogCall(lg, level, by, own) ==
    [by |-> by, own |-> own, level |-> level, emitted |-> Emits(lg, level),
     tag |-> IF Emits(lg, level) THEN RequestIdTag(lg) ELSE "",
     files |-> IF Emits(lg, level) THEN FilesWritten(lg, level) ELSE {}]

\* requestLogger, up to next(): the request draws its id, stores it in the
\* logger, starts the timer and logs the request.
RequestArrives(r, id) ==
    /\ requestIds[r] = NoRequestId
    /\ requestIds' = [requestIds EXCEPT ![r] = id]
    /\ logger' = [logger EXCEPT !.requestId = id]
    /\ lastLog' = LogCall(logger', LogLevel.INFO, r, id)
    /\ UNCHANGED <<env, falaiVars, aroundService, shutdownVars, startVars,
                   generatorVars, logOptions>>

\* A handler (or code that runs outside any request) logs a message.
Log(by, level) ==
    /\ by # "none" => requestIds[by] # NoRequestId
    /\ lastLog' = LogCall(logger, level, by,
                          IF by = "none" THEN NoRequestId ELSE requestIds[by])
    /\ UNCHANGED <<env, falaiVars, aroundService, shutdownVars, startVars,
                   generatorVars, logOptions, logger,
                   requestIds>>

\* The wrapped res.send: timer.end and logResponse log at INFO, then the
\* request id of the logger is cleared and the response is sent.
ResponseSent(r) ==
    /\ requestIds[r] # NoRequestId
    /\ lastLog' = LogCall(logger, LogLevel.INFO, r, requestIds[r])
    /\ logger' = [logger EXCEPT !.requestId = NoRequestId]
    /\ requestIds' = [requestIds EXCEPT ![r] = NoRequestId]
    /\ UNCHANGED <<env, falaiVars, aroundService, shutdownVars, startVars,
                   generatorVars, logOptions>>

---------------------------------------------------------------------------
(* server.js: SIGTERM and SIGINT *)

\* setTimeout(() => process.exit(1), 10000)
ForceAfterMs == 10000

\* Faulty variant of ForceDeadline: the forced exit is set twice as late.
ForceDeadlineLate(now) == now + 2 * ForceAfterMs

\* when the timer set by a signal received at `now` fires
ForceDeadline(now) == now + ForceAfterMs

\* the earliest of the pending timers
NextTimer(timers) == CHOOSE t \in timers : \A u \in timers : t <= u

\* A client opens a connection to the listening server.
Connect ==
    /\ proc = "listening"
    /\ connections < MaxConnections
    /\ connections' = connections + 1
    /\ UNCHANGED <<env, falaiVars, aroundService, logVars, startVars, generatorVars,
                   sinceSignal, forceTimers>>

\* A connection ends (after server.close() the server accepts no new one).
Disconnect ==
    /\ proc \in {"listening", "closing"}
    /\ connections > 0
    /\ connections' = connections - 1
    /\ UNCHANGED <<env, falaiVars, aroundService, logVars, startVars, generatorVars,
                   sinceSignal, forceTimers>>

\* process.on('SIGTERM' | 'SIGINT'): server.close(callback) and the timer of
\* the forced exit.  A signal that arrives while the server is closing runs
\* the handler again: one more callback for 'close', one more timer.
Signal ==
    /\ proc \in {"listening", "closing"}
    /\ proc' = "closing"
    /\ forceTimers' = forceTimers \cup {ForceDeadline(sinceSignal)}
    /\ UNCHANGED <<env, falaiVars, clientVars, handled, logVars, startVars,
                   generatorVars, nodeEnv,
                   build, exitCode, loaded, warnings, httpResponse, errorLog,
                   connections, sinceSignal>>

\* Time passes while the server is closing, up to the next timer.
Elapse ==
    /\ proc = "closing"
    /\ sinceSignal < NextTimer(forceTimers)
    /\ sinceSignal' = IF sinceSignal + ShutdownTickMs < NextTimer(forceTimers)
                      THEN sinceSignal + ShutdownTickMs
                      ELSE NextTimer(forceTimers)
    /\ UNCHANGED <<env, falaiVars, aroundService, logVars, startVars, generatorVars,
                   connections, forceTimers>>

\* The server emits 'close' once it holds no connection: the callback of
\* server.close exits with code 0.
Closed ==
    /\ proc = "closing"
    /\ connections = 0
    /\ proc' = "exited"
    /\ exitCode' = 0
    /\ UNCHANGED <<env, falaiVars, clientVars, handled, otherVars, nodeEnv, build,
                   loaded, warnings, httpResponse, errorLog>>

\* The timer of the forced exit fires: process.exit(1).
ForceExit ==
    /\ proc = "closing"
    /\ sinceSignal >= NextTimer(forceTimers)
    /\ proc' = "exited"
    /\ exitCode' = 1
    /\ UNCHANGED <<env, falaiVars, clientVars, handled, otherVars, nodeEnv, build,
                   loaded, warnings, httpResponse, errorLog>>

---------------------------------------------------------------------------
(* startup.js: the startup manager *)

\* checkSystemRequirements: Node.js 16 or newer, and npm
CheckSystemRequirements(nodeMajor, npmFound) ==
    IF nodeMajor < 16 THEN FALSE ELSE npmFound

\* checkDependencies: node_modules of the root and of the client, installed
\* with npm install where missing (the client only after the root)
CheckDependencies(rootFound, rootInstalls, clientFound, clientInstalls) ==
    IF ~rootFound /\ ~rootInstalls THEN FALSE
    ELSE IF ~clientFound /\ ~clientInstalls THEN FALSE
    ELSE TRUE

\* checkEnvironment over the .env file: "none" (no file), "noKey" (no line
\* OPENAI_API_KEY=), "placeholder" (the key of .env.example), "configured"
CheckEnvironment(envFile) ==
    IF envFile = "none" THEN FALSE
    ELSE LET hasOpenAIKey == envFile # "noKey" /\ envFile # "placeholder"
         IN  hasOpenAIKey

\* checkBuild: build/index.html exists, or npm run build succeeds
CheckBuild(buildFound, builds) ==
    IF ~buildFound THEN builds ELSE TRUE

\* Faulty variant of AfterCheck: a failed check is reported and main goes on.
AfterCheckGoOn(ok, then) == then

\* if (!check()) { ...; process.exit(1) }
AfterCheck(ok, then) == IF ok THEN then ELSE "exited"

\* where main goes after the environment check: the build check is left out
\* with --skip-build and in development mode
IsDev(args) == "--dev" \in args \/ "-d" \in args

AfterEnvironment(args) ==
    IF "--skip-build" \notin args /\ ~IsDev(args) THEN "build" ELSE "start"

\* A check of main() that ends the process when it fails.
RunCheck(name, ok, then) ==
    /\ checksRun' = Append(checksRun, [check |-> name, ok |-> ok])
    /\ startPc' = AfterCheck(ok, then)
    /\ startExit' = IF AfterCheck(ok, then) = "exited" THEN 1 ELSE startExit
    /\ UNCHANGED <<env, falaiVars, aroundService, logVars, shutdownVars, generatorVars,
                   startArgs>>

\* main(), up to the checks: the arguments are read; --help prints the usage
\* and exits with code 0.
Main(args) ==
    /\ startPc = "main"
    /\ startArgs' = args
    /\ IF "--help" \in args \/ "-h" \in args
       THEN startPc' = "exited" /\ startExit' = 0
       ELSE startPc' = "system" /\ startExit' = startExit
    /\ UNCHANGED <<env, falaiVars, aroundService, logVars, shutdownVars, generatorVars,
                   checksRun>>

SystemCheck(nodeMajor, npmFound) ==
    /\ startPc = "system"
    /\ RunCheck("system", CheckSystemRequirements(nodeMajor, npmFound), "dependencies")

\* --force-install removes both node_modules first (a failure of rm is
\* ignored); `removed` tells whether that happened.
DependencyCheck(removed, rootFound, rootInstalls, clientFound, clientInstalls) ==
    /\ startPc = "dependencies"
    /\ removed => "--force-install" \in startArgs
    /\ RunCheck("dependencies",
                CheckDependencies(rootFound /\ ~removed, rootInstalls,
                                  clientFound /\ ~removed, clientInstalls),
                "environment")

EnvironmentCheck(envFile) ==
    /\ startPc = "environment"
    /\ RunCheck("environment", CheckEnvironment(envFile), AfterEnvironment(startArgs))

\* checkBuild(): its result is not used
BuildCheck(buildFound, builds) ==
    /\ startPc = "build"
    /\ checksRun' = Append(checksRun, [check |-> "build", ok |-> CheckBuild(buildFound, builds)])
    /\ startPc' = "start"
    /\ UNCHANGED <<env, falaiVars, aroundService, logVars, shutdownVars, generatorVars,
                   startArgs,
                   startExit>>

\* startServer(mode): npm start or npm run dev:watch, which runs until the
\* server ends
StartServer ==
    /\ startPc = "start"
    /\ startPc' = "serving"
    /\ UNCHANGED <<env, falaiVars, aroundService, logVars, shutdownVars, generatorVars,
                   startArgs,
                   checksRun, startExit>>

\* The server ends: execSync returns, or throws (SIGINT: 'Server stopped by
\* user', main returns; otherwise 'Server crashed', exit 1).
ServerEnds(how) ==
    /\ startPc = "serving"
    /\ startPc' = "exited"
    /\ startExit' = IF how = "crashed" THEN 1 ELSE 0
    /\ UNCHANGED <<env, falaiVars, aroundService, logVars, shutdownVars, generatorVars,
                   startArgs,
                   checksRun>>

---------------------------------------------------------------------------
(* VideoGenerator: the cost estimate and the options sent with a request *)

\* Faulty variant of CostDisplay: the price per segment of Kie.ai is shown
\* for every provider.
CostDisplayPerSegment(apiId, opts, count) ==
    [text |-> "price", mills |-> RoundToCents(count * RateAudioMills)]

\* getCostDisplay: 'Free (descriptions only)' for Gemini, for FalAI
\* (segments.length * seconds * rate).toFixed(2), for Kie.ai
\* (segments.length * 0.40).toFixed(2); amounts in mills
CostDisplay(apiId, opts, count) ==
    CASE apiId = "gemini" -> [text |-> "free", mills |-> 0]
      [] apiId = "falai" ->
            [text |-> "price",
             mills |-> RoundToCents(count * ParseSeconds(opts.duration)
                                          * BaseRate(opts.generateAudio))]
      [] apiId = "kieai" -> [text |-> "price", mills |-> RoundToCents(count * RateAudioMills)]
      [] OTHER -> [text |-> "unknown", mills |-> 0]

\* generateVideosFalAI(segments, videoOptions): the options of the request
\* body, as JSON.stringify writes them
SentOptions(opts) ==
    Options(Str(opts.duration), IF opts.generateAudio THEN "true" ELSE "false",
            Undefined, "undefined")

---------------------------------------------------------------------------
(* Inputs *)

\* the segment shapes a batch may hold at (1-based) position k
BatchSegmentAt(k) == {SegStandard(k), SegNoInfo, SegEnhancedPartial(k + 1)}

\* every array of 1..MaxSegments well-formed segments
BatchLists ==
    UNION {{list \in [1..n -> UNION {BatchSegmentAt(k) : k \in 1..n}] :
                \A k \in 1..n : list[k] \in BatchSegmentAt(k)} : n \in 1..MaxSegments}

NoOptions == Options(Undefined, "undefined", Undefined, "undefined")

BatchOptions ==
    {Options(d, a, Undefined, "undefined") :
        d \in {Undefined, Str(<<"5", "s">>), Num(8)}, a \in {"undefined", "false"}}

\* request bodies the route refuses
MalformedBodies ==
    {Body("missing", <<>>, NoOptions), Body("notArray", <<>>, NoOptions),
     Body("array", <<>>, NoOptions), Body("array", <<SegInvalid>>, NoOptions),
     Body("array", <<SegStandard(1), SegInvalid>>, NoOptions),
     Body("array", <<SegNull>>, NoOptions),
     Body("array", <<SegStandard(1), SegNull>>, NoOptions)}

BatchBodies ==
    {Body("array", list, o) : list \in BatchLists, o \in BatchOptions} \cup MalformedBodies

BatchOutcomes ==
    {Fulfilled(TRUE), Rejected(HttpError(429, <<>>)), Rejected(TimeoutError)}

\* duration values a client may send
DurationValues ==
    {Undefined, Num(8), Str(<<>>), Str(<<"8", "s">>), Str(<<"5", "s">>),
     Str(<<"1", "0", "s">>), Str(<<"1", ".", "5", "s">>), Str(<<"0", "s">>),
     Str(<<"s">>), Str(<<"6", " ", "s", "e", "c">>), Str(<<"0", "7", "s">>)}

SingleOptions ==
    {Options(d, a, fd, fa) :
        d \in DurationValues, a \in {"undefined", "true", "false"},
        fd \in {Undefined, Str(<<"6", "s">>)}, fa \in {"undefined", "false"}}

SingleSegments ==
    {SegStandard(1), SegNoInfo, SegEnhanced(2), SegEnhancedPartial(2)}

SingleBodies ==
    {Body("array", <<seg>>, o) : seg \in SingleSegments, o \in SingleOptions}
        \cup MalformedBodies

AllOutcomes ==
    {Fulfilled(TRUE), Fulfilled(FALSE),
     Rejected(HttpError(400, <<>>)), Rejected(HttpError(400, <<"prompt", "too", "long">>)),
     Rejected(HttpError(401, <<>>)), Rejected(HttpError(402, <<>>)),
     Rejected(HttpError(429, <<>>)), Rejected(HttpError(500, <<>>)),
     Rejected(HttpError(503, <<>>)), Rejected(HttpError(503, <<"overloaded">>)),
     Rejected(TimeoutWithResponse(504)),
     Rejected(TimeoutError), Rejected(NetworkError), Rejected(SetupError)}

\* the two names under which the FalAI key may be configured
FalKeys == {"FAL_AI_API_KEY", "FALAI_API_KEY"}

\* process.env of a batch request: no key, or the key
BatchEnvs == {{"OPENAI_API_KEY"}, {"OPENAI_API_KEY", "FAL_AI_API_KEY"}}

\* what the provider's GET /health may answer
ProbeOutcomes ==
    {Fulfilled(TRUE), Rejected(HttpError(404, <<>>)), Rejected(TimeoutError),
     Rejected(NetworkError)}

\* requests and calls of the service specification
ServiceLists ==
    {<<SegStandard(1)>>, <<SegNoInfo>>, <<SegNoInfo, SegStandard(2)>>,
     <<SegEnhancedPartial(1), SegNoInfo>>}

ServiceBodies ==
    {Body("array", list, NoOptions) : list \in ServiceLists}
        \cup {Body("array", <<SegStandard(1), SegNull>>, NoOptions)}

ServiceOutcomes == {Fulfilled(TRUE), Fulfilled(FALSE), Rejected(HttpError(429, <<>>))}

ServiceOptions == {NoOptions, Options(Num(8), "undefined", Undefined, "undefined")}

\* the credential variables server.js looks at
ServerKeys ==
    {"OPENAI_API_KEY", "GOOGLE_GEMINI_API_KEY", "GOOGLE_APPLICATION_CREDENTIALS",
     "KIEAI_API_KEY"}

NodeEnvs == {"unset", "development", "production", "test"}

Builds == {"none", "noIndex", "full"}

GetPaths == {"/api/health", "/", "/static/js/main.js", "/segments/3"}

\* Math.random().toString(36).substring(7): a few characters, or none
ErrorIds == {"", "k3x9f", "0qz7"}

ServerErrors ==
    {ServerError("Unexpected token", "SyntaxError", 400),
     ServerError("segments is not iterable", "TypeError", 0)}

ApiRequests ==
    {Request("POST", "/api/generate-videos-falai"), Request("GET", "/api/falai-status")}

\* the requests the server handles at the same time
RequestNames == {"first", "second"}

\* new Logger('app'): no options (writeToFile is options.writeToFile !== false)
NoLogOptions == [level |-> Undefined, writeToFile |-> TRUE]

\* the options a Logger may be constructed with
LogOptionSets ==
    {[level |-> level, writeToFile |-> toFile] :
        level \in {Undefined} \cup {Num(n) : n \in 0..4}, toFile \in BOOLEAN}

\* the choices of the FalAI option panel
OptionChoices ==
    [duration |-> {<<"5", "s">>, <<"6", "s">>, <<"7", "s">>, <<"8", "s">>},
     generateAudio |-> BOOLEAN]

\* client addresses
Clients == {"10.0.0.1", "10.0.0.2"}

\* what the client may receive from GET /api/falai-status
StatusAnswers ==
    {Body200(StatusRoute(StatusNotInitialized))}
        \cup {Body200(StatusRoute(StatusAfterProbe(outcome))) : outcome \in ProbeOutcomes}
        \cup {Body200([status |-> 404, error |-> "Not found"]), FetchFailed}

---------------------------------------------------------------------------
(* Specifications *)

\* no request has arrived at the FalAI routes
NoRequestYet ==
    /\ regenerating = FALSE
    /\ callReturn = NoCall
    /\ statusPc = "idle"
    /\ probed = "no"
    /\ statusResult = NoResult
    /\ statusResponse = NoResponse
    /\ pc = "idle"
    /\ segments = <<>>
    /\ options = RouteOptions(NoOptions)
    /\ i = 0
    /\ results = <<>>
    /\ errors = <<>>
    /\ pending = NoPending
    /\ inflight = {}
    /\ issued = <<>>
    /\ attempted = <<>>
    /\ thrown = <<>>
    /\ sinceDone = 0
    /\ batchResult = NoResult
    /\ response = NoResponse
    /\ httpResponse = NoResponse
    /\ errorLog = NoLog
    /\ handled = [c \in Clients |-> 0]
    /\ serviceStatus = [p \in Providers |-> "unknown"]
    /\ selectorLoading = FALSE
    /\ selectedAPI = "gemini"
    /\ generating = FALSE
    /\ lastSelect = NoClick
    /\ lastUse = [provider |-> "none", status |-> "unknown", endpoint |-> "none"]
    /\ requestIds = [r \in RequestNames |-> NoRequestId]
    /\ lastLog = NothingLogged
    /\ connections = 0
    /\ sinceSignal = 0
    /\ forceTimers = {}
    /\ startPc = "main"
    /\ startArgs = {}
    /\ checksRun = <<>>
    /\ startExit = NotExited
    /\ uiVideos = "none"
    /\ uiError = "none"
    /\ videoOptions = [duration |-> <<"8", "s">>, generateAudio |-> TRUE]
    /\ requestFor = "none"
    /\ outstanding = 0

\* the state when the server listens: the FalAI service was constructed with
\* the process environment, and no request has arrived
InitWith(environments) ==
    /\ env \in environments
    /\ initialized = Initialize(env)
    /\ NoRequestYet
    /\ nodeEnv = "unset"
    /\ build = "full"
    /\ logOptions = NoLogOptions
    /\ logger = NewLogger(NoLogOptions, nodeEnv)
    /\ proc = "listening"
    /\ exitCode = NotExited
    /\ loaded = RouteModules
    /\ warnings = ValidationWarnings(env, "full")

Init == InitWith(BatchEnvs)

PostBatch == \E body \in BatchBodies : Post(body)

RespondBatch == \E outcome \in BatchOutcomes : ProviderResponds(outcome)

PostSingle == \E body \in SingleBodies : Post(body)

RespondSingle == \E outcome \in AllOutcomes : ProviderResponds(outcome)

\* a batch request through the route, with its delays
Next == PostBatch \/ RespondBatch \/ Tick \/ TimerFires

Spec == Init /\ [][Next]_vars

\* a request for one segment: every option value and every provider answer
NextCall == PostSingle \/ RespondSingle

SpecCall == Init /\ [][NextCall]_vars

InitService == InitWith({{"OPENAI_API_KEY"} \cup keys : keys \in SUBSET FalKeys})

\* the service as its callers use it, one request after the other: batches
\* through the route, direct calls, and the status probe
NextService ==
    \/ \E body \in ServiceBodies : Post(body)
    \/ \E outcome \in ServiceOutcomes : ProviderResponds(outcome)
    \/ Tick
    \/ TimerFires
    \/ \E segment \in SingleSegments, opts \in ServiceOptions : CallSegment(segment, opts)
    \/ \E outcome \in ServiceOutcomes : CallSettles(outcome)
    \/ Completed
    \/ GetStatus
    \/ \E outcome \in ProbeOutcomes : ProbeSettles(outcome)

SpecService == InitService /\ [][NextService]_vars

\* node server.js is started
InitServer ==
    /\ env \in SUBSET (ServerKeys \cup {"FAL_AI_API_KEY"})
    /\ nodeEnv \in NodeEnvs
    /\ build \in Builds
    /\ logOptions = NoLogOptions
    /\ logger = NewLogger(NoLogOptions, nodeEnv)
    /\ initialized = FALSE
    /\ NoRequestYet
    /\ proc = "starting"
    /\ exitCode = NotExited
    /\ loaded = <<>>
    /\ warnings = {}

\* the server process from its start, and the requests it answers itself
NextServer ==
    \/ ValidateEnvironment
    \/ \E failAt \in 0..Len(RouteModules) : LoadRoutes(failAt)
    \/ \E bound \in BOOLEAN : Listen(bound)
    \/ \E path \in GetPaths, sent \in BOOLEAN : Get(path, sent)
    \/ \E err \in ServerErrors, req \in ApiRequests, errorId \in ErrorIds :
            FailRequest(err, req, errorId)

SpecServer == InitServer /\ [][NextServer]_vars

\* requests for the FalAI endpoints, by client address and minute
NextLimit ==
    \/ \E client \in Clients, req \in ApiRequests, wellFormed \in BOOLEAN,
          errorId \in ErrorIds : ApiRequest(client, req, wellFormed, errorId)
    \/ WindowElapses

SpecLimit == Init /\ [][NextLimit]_vars

\* the React client: the provider selector and the generate button
NextClient ==
    \/ CheckServiceAvailability
    \/ \E answer \in StatusAnswers : StatusFetched(answer)
    \/ \E apiId \in Providers : SelectAPI(apiId)
    \/ \E key \in DOMAIN OptionChoices : \E value \in OptionChoices[key] :
          ChangeOption(key, value)
    \/ StartGeneration
    \/ \E ok \in BOOLEAN : GenerationSettles(ok)

SpecClient == Init /\ [][NextClient]_vars

---------------------------------------------------------------------------
(* Properties of the batch (specification Spec) *)

BatchReturned == "videos" \in DOMAIN batchResult

\* C1: a failed call for one segment is recorded and does not abort the
\* batch: when generateVideosForAllSegments returns, every segment of the
\* input has been handed to generateVideoFromSegment once, in input order,
\* and videos has exactly N entries, entry k being the one of input segment k
\* (its segment number, and for a success the prompt made from that segment).
C1_FailureDoesNotAbortBatch ==
    BatchReturned =>
        /\ Len(batchResult.videos) = Len(segments)
        /\ Len(attempted) = Len(segments)
        /\ \A k \in 1..Len(attempted) : attempted[k] = k - 1
        /\ \A k \in 1..Len(batchResult.videos) :
            LET v == batchResult.videos[k]
                n == SegmentNumberOf(segments[k])
            IN  IF v.success
                THEN v.segmentNumber = n /\ v.metadata.prompt = CreateVideoPrompt(segments[k])
                ELSE v.segmentNumber = (IF n # 0 THEN n ELSE k)

\* a returned batch of three segments whose first call failed and whose
\* second and third calls succeeded
C1_Witness ==
    /\ BatchReturned
    /\ Len(segments) = 3
    /\ ~batchResult.videos[1].success
    /\ batchResult.videos[2].success
    /\ batchResult.videos[3].success

\* C2: for a batch of N segments in which exactly M calls failed, the result
\* reports successCount = N - M and failureCount = M; successCount +
\* failureCount = totalSegments = N, successCount is the number of videos
\* entries with success true and failureCount the number with success false.
C2_SuccessAndFailureCounts ==
    BatchReturned =>
        LET N == Len(segments)
            M == Len(thrown)
            ok == {k \in 1..Len(batchResult.videos) : batchResult.videos[k].success}
            ko == {k \in 1..Len(batchResult.videos) : ~batchResult.videos[k].success}
        IN  /\ batchResult.totalSegments = N
            /\ batchResult.successCount = N - M
            /\ batchResult.failureCount = M
            /\ batchResult.successCount + batchResult.failureCount = N
            /\ batchResult.successCount = Cardinality(ok)
            /\ batchResult.failureCount = Cardinality(ko)

\* a returned batch of three segments of which exactly one failed
C2_Witness ==
    /\ BatchReturned
    /\ Len(segments) = 3
    /\ Len(thrown) = 1
    /\ batchResult.successCount = 2
    /\ batchResult.failureCount = 1

\* what the caller asked for, read off the options of the batch: the
\* duration in seconds (8 when none is given) and the rate in cents per second
RequestedSeconds(opts) ==
    IF opts.duration = Str(<<"5", "s">>) THEN 5 ELSE 8

RequestedRateCents(opts) == IF opts.generateAudio = "false" THEN 20 ELSE 40

RECURSIVE ExpectedTotalCents(_, _)
\* the sum of rate x duration over the entries with success true
ExpectedTotalCents(videos, opts) ==
    IF videos = <<>> THEN 0
    ELSE (IF Head(videos).success
          THEN RequestedRateCents(opts) * RequestedSeconds(opts) ELSE 0)
         + ExpectedTotalCents(Tail(videos), opts)

\* C3: totalCost is the sum, over only the segments whose call succeeded, of
\* per-second rate x requested duration (40 cents/second with audio, 20
\* without); failed segments contribute nothing and a batch in which every
\* call failed has totalCost 0.  (totalCost is in mills: 10 per cent.)
C3_TotalCostOverSuccesses ==
    BatchReturned =>
        /\ batchResult.totalCost = 10 * ExpectedTotalCents(batchResult.videos, options)
        /\ (batchResult.successCount = 0 => batchResult.totalCost = 0)

\* a returned batch with two successes at 5 s without audio and one failure:
\* 2 x 5 x 20 cents
C3_Witness ==
    /\ BatchReturned
    /\ Len(segments) = 3
    /\ batchResult.successCount = 2
    /\ batchResult.failureCount = 1
    /\ options.duration = Str(<<"5", "s">>)
    /\ options.generateAudio = "false"
    /\ batchResult.totalCost = 2000

\* the 1-based positions of the failed entries, in increasing order
FailedPositions(videos) ==
    SelectSeq([k \in 1..Len(videos) |-> k], LAMBDA k : ~videos[k].success)

\* C4: errors has exactly one entry per failed segment, each referencing the
\* 1-based position of that segment in the input, in increasing order, and
\* errors is absent exactly when no segment failed.
C4_ErrorsListFailedPositions ==
    BatchReturned =>
        LET failed == FailedPositions(batchResult.videos)
        IN  /\ ("errors" \in DOMAIN batchResult) <=> (failed # <<>>)
            /\ "errors" \in DOMAIN batchResult =>
                /\ Len(batchResult.errors) = Len(failed)
                /\ \A j \in 1..Len(failed) :
                    /\ batchResult.errors[j].segmentIndex = failed[j]
                    /\ batchResult.errors[j].error = batchResult.videos[failed[j]].error

\* three segments, only the second call fails, with a 429: one errors entry
\* with segment index 2, and the request of the third segment was issued
C4_Witness ==
    /\ BatchReturned
    /\ Len(segments) = 3
    /\ batchResult.successCount = 2
    /\ "errors" \in DOMAIN batchResult
    /\ batchResult.errors = <<[segmentIndex |-> 2, error |-> MsgRateLimit]>>
    /\ thrown[1].cause = Rejected(HttpError(429, <<>>))
    /\ \E k \in 1..Len(issued) : issued[k].index = 2

\* C5: a fixed delay separates every two consecutive provider calls of a
\* batch: each request after the first is issued no sooner than DelayMs after
\* the previous request settled, whether that one succeeded or failed.
C5_DelayBetweenAllCalls ==
    \A k \in 2..Len(issued) : issued[k].gap >= DelayMs

\* the delay that the code does keep: after a call that returned
DelayKeptAfterSuccess ==
    \A k \in 2..Len(issued) :
        (\A t \in 1..Len(thrown) : thrown[t].index # issued[k - 1].index)
            => issued[k].gap >= DelayMs

\* C6: the provider calls of a batch are strictly sequential and in input
\* order: never two requests in flight, and the request of a later segment is
\* issued only after every earlier request has settled.
C6_CallsAreSequential ==
    /\ Cardinality(inflight) <= 1
    /\ inflight \subseteq (IF pc = "awaitingProvider" THEN {i} ELSE {})
    /\ \A k \in 1..(Len(issued) - 1) :
        /\ issued[k].index < issued[k + 1].index
        /\ issued[k].index \notin inflight

\* the third request of a batch is in flight, alone
C6_Witness ==
    /\ pc = "awaitingProvider"
    /\ Len(issued) = 3
    /\ inflight = {2}

\* C7: no provider call is retried: each segment causes at most one HTTP
\* request, whatever its outcome, so a batch of N segments issues at most N.
C7_NoRetry ==
    /\ Len(issued) <= Len(segments)
    /\ \A j, k \in 1..Len(issued) : issued[j].index = issued[k].index => j = k

\* a returned batch in which a request failed by timeout and one by a 429,
\* each segment having been requested once
C7_Witness ==
    /\ BatchReturned
    /\ Len(issued) = 3
    /\ \E t \in 1..Len(thrown) : thrown[t].cause = Rejected(TimeoutError)
    /\ \E t \in 1..Len(thrown) : thrown[t].cause = Rejected(HttpError(429, <<>>))

---------------------------------------------------------------------------
(* Properties of the adapter and of the route *)

IsPrefix(p, msg) == Len(p) <= Len(msg) /\ SubSeq(msg, 1, Len(p)) = p

\* the normalized kind an error thrown by generateVideoFromSegment belongs
\* to, "raw" when it is not one of the adapter's own errors
KindOf(error) ==
    IF error.name # "Error" THEN "raw"
    ELSE IF error.message = MsgInvalidKey THEN "auth"
    ELSE IF error.message = MsgCredits THEN "quota"
    ELSE IF error.message = MsgRateLimit THEN "ratelimit"
    ELSE IF IsPrefix(MsgBadRequestPrefix, error.message) THEN "badrequest"
    ELSE IF error.message \in {MsgTimeout, MsgNetwork} THEN "transient"
    ELSE IF \/ error.message = MsgServer
            \/ IsPrefix(<<"FalAI", "API", "error">>, error.message)
            \/ IsPrefix(MsgServicePrefix, error.message) THEN "provider"
    ELSE "raw"

\* the kind the failure of a request is to be translated into ("any" where
\* only a translation is required)
ClaimedKind(cause) ==
    IF cause.kind # "rejected" THEN "any"
    ELSE IF cause.error.response THEN
        CASE cause.error.status = 401 -> "auth"
          [] cause.error.status = 402 -> "quota"
          [] cause.error.status = 429 -> "ratelimit"
          [] cause.error.status = 400 -> "badrequest"
          [] OTHER -> "provider"
    ELSE IF cause.error.code = "ECONNABORTED" \/ cause.error.request THEN "transient"
    ELSE "any"

\* C8: every failure of generateVideoFromSegment is translated into exactly
\* one normalized error kind: 401 -> auth, 402 -> quota, 429 -> rate limit,
\* 400 -> bad request, timeout or no response -> transient, any other status
\* -> provider; no raw error escapes, and a response status takes precedence
\* over the timeout/network classification.
C8_EveryFailureIsTranslated ==
    \A t \in 1..Len(thrown) :
        /\ KindOf(thrown[t].error) # "raw"
        /\ ClaimedKind(thrown[t].cause) # "any"
            => KindOf(thrown[t].error) = ClaimedKind(thrown[t].cause)

\* the translation as far as the code performs it: of every failure of a
\* request whose prompt could be built
TranslatedWhenPromptBuilds ==
    \A t \in 1..Len(thrown) :
        ~CreateVideoPromptThrows(segments[thrown[t].index + 1]) =>
            /\ KindOf(thrown[t].error) # "raw"
            /\ ClaimedKind(thrown[t].cause) # "any"
                => KindOf(thrown[t].error) = ClaimedKind(thrown[t].cause)

\* the request was well-formed: the route went on to the adapter
ReachedAdapter ==
    /\ pc = "responded"
    /\ response.status # 400
    /\ \A k \in 1..Len(segments) : ~segments[k].isNull
    /\ segments # <<>>

\* every call of the request failed, and failed with an error of this kind
FailedWith(kind) ==
    /\ BatchReturned
    /\ ~batchResult.success
    /\ \A t \in 1..Len(thrown) : KindOf(thrown[t].error) = kind

\* C9: provider errors are surfaced with a provider-specific status: a
\* request that fails because of a provider auth error or a missing
\* credential is answered 401, because of a quota error 402, a rate-limit
\* error 429, a bad-request error 400, and 500 only for other failures.
C9_ProviderStatusMapping ==
    ReachedAdapter =>
        /\ (~initialized \/ FailedWith("auth")) => response.status = 401
        /\ FailedWith("quota") => response.status = 402
        /\ FailedWith("ratelimit") => response.status = 429
        /\ FailedWith("badrequest") => response.status = 400
        /\ response.status = 500 =>
            /\ initialized
            /\ ~ \E kind \in {"auth", "quota", "ratelimit", "badrequest"} : FailedWith(kind)

\* what the route does answer to a well-formed request: 500 exactly when the
\* adapter has no credential, 200 whenever the batch returned
StatusOfWellFormedRequest ==
    ReachedAdapter => response.status = (IF initialized THEN 200 ELSE 500)

RECURSIVE DigitsValueFrom(_, _)
\* the integer formed by the digits of s, read left to right onto acc
DigitsValueFrom(acc, s) ==
    IF s = <<>> THEN acc
    ELSE IF IsDigit(Head(s))
         THEN DigitsValueFrom(10 * acc + DigitValue(Head(s)), Tail(s))
         ELSE DigitsValueFrom(acc, Tail(s))

\* seconds x 40 cents with audio, seconds x 20 cents without, seconds being
\* the integer formed by the digits of the duration (8 when it is 0 or when
\* there is no digit)
ClaimedCostCents(duration, audio) ==
    LET n == DigitsValueFrom(0, duration)
        seconds == IF n = 0 THEN 8 ELSE n
    IN  seconds * (IF audio THEN 40 ELSE 20)

\* C10: the cost of a video is a function of the requested duration and the
\* audio flag only: seconds x 0.40 with audio, seconds x 0.20 without, where
\* seconds is the integer formed by the digits of the duration string (8 when
\* there are no digits or the value is 0), whatever the segment and whatever
\* the provider answered.
C10_CostFromDurationAndAudio ==
    \A k \in 1..Len(results) :
        results[k].success =>
            /\ "cost" \in DOMAIN results[k]
            /\ results[k].duration.type = "string"
            /\ results[k].cost =
                10 * ClaimedCostCents(results[k].duration.str,
                                      results[k].metadata.generateAudio)

\* a video of duration '1.5s' with audio costs 15 x 40 cents, and the answer
\* carried no video
C10_Witness ==
    /\ Len(results) = 1
    /\ results[1].success
    /\ results[1].duration = Str(<<"1", ".", "5", "s">>)
    /\ results[1].metadata.generateAudio
    /\ results[1].cost = 6000
    /\ results[1].videoUrl = "undefined"

---------------------------------------------------------------------------
(* Properties of the status probe (specification SpecService) *)

\* C11: the FalAI status probe (getServiceStatus and GET /falai-status)
\* always answers { available: boolean, reason? } and never fails: the route
\* answers 200 with the value of getServiceStatus; available is true only if
\* the adapter is initialized and the probe request succeeded; when the
\* credential is absent the answer is available = false with a reason and no
\* network call was made; available = false always comes with a reason and
\* available = true never does.
C11_StatusProbeAlwaysAnswers ==
    /\ probed # "no" => initialized
    /\ statusPc = "answered" =>
        /\ statusResponse.status = 200
        /\ statusResponse.available \in BOOLEAN
        /\ statusResponse.available = statusResult.available
        /\ ("reason" \in DOMAIN statusResponse) = ("reason" \in DOMAIN statusResult)
        /\ statusResponse.available => initialized /\ probed = "fulfilled"
        /\ ~Initialize(env) =>
            /\ ~statusResponse.available
            /\ "reason" \in DOMAIN statusResponse
            /\ probed = "no"
        /\ ~statusResponse.available => "reason" \in DOMAIN statusResponse
        /\ statusResponse.available => "reason" \notin DOMAIN statusResponse

\* an initialized adapter whose probe request failed has answered
C11_Witness ==
    /\ statusPc = "answered"
    /\ initialized
    /\ probed = "rejected"
    /\ ~statusResponse.available
    /\ statusResponse.reason = "Service unavailable"

---------------------------------------------------------------------------
(* Properties of the service (specification SpecService) *)

\* a direct generateVideoFromSegment call has ended
CallEnded == callReturn # NoCall

\* C12: initialized is true iff FAL_AI_API_KEY or FALAI_API_KEY was set when
\* the service was constructed, and it never changes afterwards; while it is
\* false every call of generateVideoFromSegment and every call of
\* generateVideosForAllSegments fails (throws "not initialized"; through the
\* route: an error response) and no HTTP request is ever sent to the provider.
C12_InitializedOnlyAtConstruction ==
    /\ [](initialized =
            (IsSet(env, "FAL_AI_API_KEY") \/ IsSet(env, "FALAI_API_KEY")))
    /\ [][initialized' = initialized]_vars
    /\ [](~initialized =>
            /\ issued = <<>> /\ inflight = {} /\ pending = NoPending
            /\ pc \in {"idle", "responded"}
            /\ batchResult = NoResult
            /\ CallEnded =>
                /\ callReturn.state = "thrown"
                /\ callReturn.error.message = MsgNotInitializedSegment
            /\ response # NoResponse => response.status >= 400)

\* without a key, a direct call has thrown and a later request for a batch
\* of valid segments was answered with the batch's "not initialized" error
C12_Witness ==
    /\ ~initialized
    /\ regenerating
    /\ pc = "responded"
    /\ response # NoResponse
    /\ response.status = 500
    /\ response.message = MsgNotInitializedBatch

---------------------------------------------------------------------------
(* Properties of the server process (specification SpecServer) *)

\* the server has answered GET path itself
Answered(path) == "path" \in DOMAIN httpResponse /\ httpResponse.path = path

\* C13: GET /api/health reports the presence of each provider credential:
\* apis.openai, apis.gemini, apis.vertex and apis.kieai are true iff
\* OPENAI_API_KEY, GOOGLE_GEMINI_API_KEY, GOOGLE_APPLICATION_CREDENTIALS and
\* KIEAI_API_KEY are set; with no video credential the last three are all
\* false; and the request is answered with this JSON by the health handler,
\* never by the catch-all page handler, whatever the state of the React build.
C13_HealthReportsCredentials ==
    Answered("/api/health") =>
        /\ httpResponse.handler = "health"
        /\ httpResponse.status = 200
        /\ httpResponse.body = "json"
        /\ httpResponse.apis.openai = ("OPENAI_API_KEY" \in env)
        /\ httpResponse.apis.gemini = ("GOOGLE_GEMINI_API_KEY" \in env)
        /\ httpResponse.apis.vertex = ("GOOGLE_APPLICATION_CREDENTIALS" \in env)
        /\ httpResponse.apis.kieai = ("KIEAI_API_KEY" \in env)
        /\ env \cap {"GOOGLE_GEMINI_API_KEY", "GOOGLE_APPLICATION_CREDENTIALS",
                     "KIEAI_API_KEY"} = {} =>
            /\ ~httpResponse.apis.gemini
            /\ ~httpResponse.apis.vertex
            /\ ~httpResponse.apis.kieai

\* the health request was answered by a server that has a full React build
\* and no video credential at all
C13_Witness ==
    /\ Answered("/api/health")
    /\ build = "full"
    /\ env = {"OPENAI_API_KEY"}
    /\ httpResponse.apis = [openai |-> TRUE, gemini |-> FALSE, vertex |-> FALSE,
                            kieai |-> FALSE]

VideoKeys == {"GOOGLE_GEMINI_API_KEY", "GOOGLE_APPLICATION_CREDENTIALS", "KIEAI_API_KEY"}

\* C14: OPENAI_API_KEY is mandatory: when it is not set the process exits
\* with code 1 at the validation of the environment, no route module is ever
\* imported, the server never listens and no request is answered; when it is
\* set, the validation always goes on to the import of the routes, whatever
\* video credentials are missing: those only produce a warning.
C14_OpenAIKeyMandatory ==
    /\ []("OPENAI_API_KEY" \notin env =>
            /\ proc \in {"starting", "exited"}
            /\ proc = "exited" => exitCode = 1
            /\ loaded = <<>>
            /\ httpResponse = NoResponse)
    /\ [][proc = "starting" =>
            /\ "OPENAI_API_KEY" \in env => proc' = "loading" /\ exitCode' = NotExited
            /\ "OPENAI_API_KEY" \notin env => proc' = "exited" /\ exitCode' = 1
            /\ ("No video generation API keys found" \in warnings')
                    = (env \cap VideoKeys = {})]_vars

\* every video credential is set and OPENAI_API_KEY is not: the process has
\* exited with code 1 and nothing was imported
C14_Witness ==
    /\ env = VideoKeys
    /\ proc = "exited"
    /\ exitCode = 1
    /\ loaded = <<>>

\* the last answer of the server came from the error middleware
ErrorAnswered == "handler" \in DOMAIN httpResponse /\ httpResponse.handler = "error"

\* C15: every error that reaches the error middleware gets a correlation id
\* that is written to the log entry and to the response body; the response
\* carries the error's own message, its stack and the request details when
\* NODE_ENV is "development", and otherwise (production, another value, or
\* not set) only the generic message, with no stack and no request details.
C15_ErrorResponseByEnvironment ==
    ErrorAnswered =>
        /\ errorLog.logged
        /\ "errorId" \in DOMAIN httpResponse
        /\ httpResponse.errorId = errorLog.errorId
        /\ httpResponse.errorId \in ErrorIds
        /\ httpResponse.error = "Internal server error"
        /\ nodeEnv = "development" =>
            /\ httpResponse.message = errorLog.message
            /\ "stack" \in DOMAIN httpResponse
            /\ httpResponse.stack = errorLog.stack
            /\ "request" \in DOMAIN httpResponse
        /\ nodeEnv # "development" =>
            /\ httpResponse.message = "Something went wrong"
            /\ "stack" \notin DOMAIN httpResponse
            /\ "request" \notin DOMAIN httpResponse

\* with NODE_ENV not set, a TypeError was answered with the generic message
\* and the id of its log entry
C15_Witness ==
    /\ ErrorAnswered
    /\ nodeEnv = "unset"
    /\ errorLog.message = "segments is not iterable"
    /\ httpResponse.message = "Something went wrong"
    /\ httpResponse.errorId = "k3x9f"
    /\ errorLog.errorId = "k3x9f"
    /\ httpResponse.status = 500

---------------------------------------------------------------------------
(* Properties of the request chain (specification SpecLimit) *)

\* C16: every API endpoint, POST /api/generate-videos-falai and GET
\* /api/falai-status included, enforces a quota of 10 requests per minute and
\* client address: within one window no more than 10 requests of one client
\* reach a handler (the 11th is rejected before the handler), whatever the
\* other clients do.
C16_QuotaPerClient ==
    \A client \in Clients : handled[client] <= Quota

---------------------------------------------------------------------------
(* Properties of the route's validation (specification Spec) *)

\* the segments of the request are missing, not an array, empty, or hold an
\* element with neither action_timeline.dialogue nor character_description
\* (a null element is one)
MalformedRequest ==
    \/ segments = <<>>
    \/ \E k \in 1..Len(segments) :
            segments[k].isNull \/ IsInvalidSegment(segments[k])

\* C17: POST /generate-videos-falai rejects a malformed request at once with
\* status 400 and without any call of the provider: segments missing, not an
\* array, empty, or any element that has neither action_timeline.dialogue nor
\* character_description, a null element included.
C17_MalformedRequestRejected ==
    pc = "responded" /\ MalformedRequest =>
        /\ response.status = 400
        /\ issued = <<>>
        /\ attempted = <<>>

\* What the route does: a malformed request never reaches the provider, and
\* it is answered with 400 unless an element of the array is null.
MalformedRejectedUnlessNull ==
    pc = "responded" /\ MalformedRequest =>
        /\ issued = <<>>
        /\ attempted = <<>>
        /\ response.status =
            (IF \E k \in 1..Len(segments) : segments[k].isNull THEN 500 ELSE 400)

---------------------------------------------------------------------------
(* Properties of the video results (specification SpecCall) *)

\* C18: every VideoResult, successful or failed, references its segment by a
\* defined segment number; it carries the provider's video URL and the
\* computed cost when success is true and an error message when success is
\* false.  This holds for segments the caller supplies without segment_info
\* too.
C18_VideoResultIsComplete ==
    \A k \in 1..Len(results) :
        /\ results[k].segmentNumber # 0
        /\ results[k].success =>
            /\ results[k].videoUrl = "url"
            /\ "cost" \in DOMAIN results[k]
            /\ results[k].cost > 0
        /\ ~results[k].success =>
            /\ "error" \in DOMAIN results[k]
            /\ results[k].error # <<>>

\* What the code keeps: a failed result is always numbered (by the segment's
\* number, else by its position) and carries the message; a successful
\* result is priced, and is numbered exactly when the segment has a number.
FailedResultsAreNumbered ==
    \A k \in 1..Len(results) :
        /\ ~results[k].success =>
            /\ results[k].segmentNumber # 0
            /\ results[k].error # <<>>
        /\ results[k].success =>
            /\ results[k].cost > 0
            /\ results[k].segmentNumber = SegmentNumberOf(segments[k])

---------------------------------------------------------------------------
(* Frame of the video generation (specification SpecService) *)

\* C19: video generation never touches the segments it is given: from the
\* moment a call of generateVideoFromSegment or generateVideosForAllSegments
\* starts, the caller's array and its segment objects stay as they were
\* passed (they change only when the caller passes new ones with its next
\* call); and a batch that is generated again does not depend on an earlier
\* batch or call: its result counts and lists the segments of this request
\* only, each video made from the segment at its position.
C19_SegmentsAreNotTouched ==
    /\ [][segments' # segments => pc = "idle"]_vars
    /\ [](BatchReturned =>
            /\ batchResult.totalSegments = Len(segments)
            /\ Len(batchResult.videos) = Len(segments)
            /\ batchResult.successCount + batchResult.failureCount = Len(segments)
            /\ \A k \in 1..Len(batchResult.videos) :
                batchResult.videos[k].success =>
                    batchResult.videos[k].metadata.prompt = CreateVideoPrompt(segments[k]))
    /\ [](CallEnded /\ callReturn.state = "returned" =>
            callReturn.value.metadata.prompt = CreateVideoPrompt(segments[1]))

\* after an earlier request, a batch of two segments has returned; the video
\* of its first segment, which has no segment_info, was generated
C19_Witness ==
    /\ regenerating
    /\ BatchReturned
    /\ Len(segments) = 2
    /\ segments[1] = SegNoInfo
    /\ batchResult.videos[1].success
    /\ batchResult.videos[2].success

---------------------------------------------------------------------------
(* Properties of the client (specification SpecClient) *)

\* C20: the client checks availability before it offers a provider: an
\* option of the selector is selected, and a generation request is started
\* with a provider, only if the most recent availability check reported that
\* provider available; and a provider is shown as available only as the
\* result of a check of that provider.
C20_OnlyAvailableProvidersOffered ==
    /\ lastSelect.provider # "none" => lastSelect.status = "available"
    /\ lastUse.provider # "none" => lastUse.status = "available"
    /\ \A p \in Providers :
        serviceStatus[p] = "available" => p \in ProbedProviders

---------------------------------------------------------------------------
(* The logger and its request middleware: SpecLogger *)

InitLogger ==
    /\ env \in BatchEnvs
    /\ initialized = Initialize(env)
    /\ NoRequestYet
    /\ nodeEnv \in {"unset", "development", "production"}
    /\ build = "full"
    /\ logOptions \in LogOptionSets
    /\ logger = NewLogger(logOptions, nodeEnv)
    /\ proc = "listening"
    /\ exitCode = NotExited
    /\ loaded = RouteModules
    /\ warnings = ValidationWarnings(env, "full")

\* requests handled at the same time behind requestLogger, and the messages
\* logged meanwhile
NextLogger ==
    \/ \E r \in RequestNames, id \in ErrorIds : RequestArrives(r, id)
    \/ \E by \in RequestNames \cup {"none"}, level \in 0..4 : Log(by, level)
    \/ \E r \in RequestNames : ResponseSent(r)

SpecLogger == InitLogger /\ [][NextLogger]_vars

\* C21: every log line emitted on behalf of a request, between its arrival
\* and its response, carries that request's own id: never the id of another
\* request, and never no id at all.
C21_LogLinesCarryOwnRequestId ==
    (lastLog.by \in RequestNames /\ lastLog.emitted)
        => (lastLog.tag # "" /\ lastLog.tag = lastLog.own)

\* the line of a request is tagged with the (different) id of another request
\* that is being handled at the same time
LineTaggedWithOtherRequest ==
    /\ lastLog.by \in RequestNames
    /\ lastLog.emitted
    /\ lastLog.own # ""
    /\ lastLog.tag # ""
    /\ lastLog.tag # lastLog.own

\* C30: a message is emitted exactly when its level is at or below the level
\* given in the constructor options (the environment default when none is
\* given); a logger that writes files appends an emitted ERROR message to the
\* main and the error log file, any other emitted message to the main log
\* file only.
C30_EmitsUpToConfiguredLevel ==
    LET configured ==
            IF logOptions.level = Undefined
            THEN IF nodeEnv = "development" THEN LogLevel.DEBUG ELSE LogLevel.INFO
            ELSE logOptions.level.num
    IN  lastLog # NothingLogged =>
            /\ lastLog.emitted <=> lastLog.level <= configured
            /\ (lastLog.emitted /\ logOptions.writeToFile) =>
                   lastLog.files = IF lastLog.level = LogLevel.ERROR
                                   THEN {"main", "error"} ELSE {"main"}

---------------------------------------------------------------------------
(* The shutdown of the server process: SpecShutdown *)

\* the listening server, its connections, and the termination signals
NextShutdown ==
    \/ \E path \in GetPaths, sent \in BOOLEAN : Get(path, sent)
    \/ Connect
    \/ Disconnect
    \/ Signal
    \/ Elapse
    \/ Closed
    \/ ForceExit

\* The event loop runs what is due: the clock advances, a due timer fires,
\* and the callback of server.close runs once the server has closed.  Nothing
\* makes a client end its connection.
SpecShutdown ==
    /\ Init
    /\ [][NextShutdown]_vars
    /\ WF_vars(Elapse)
    /\ WF_vars(Closed)
    /\ WF_vars(ForceExit)

\* the process is shutting down, or has exited, after a signal
Signalled == forceTimers # {}

\* C22: after SIGTERM or SIGINT the process always exits: with code 0 if the
\* server has closed (no connection left) within 10 s of the signal, with
\* code 1 when the 10 s are over; it never runs longer than 10 s.
C22_ShutdownEndsWithinTenSeconds ==
    /\ [](Signalled =>
            /\ sinceSignal <= ForceAfterMs
            /\ proc \in {"closing", "exited"}
            /\ proc = "exited" =>
                   \/ exitCode = 0 /\ connections = 0
                   \/ exitCode = 1 /\ sinceSignal = ForceAfterMs)
    /\ (proc = "closing" ~> proc = "exited")

\* a forced exit, a connection being still open after 10 s
C22_Witness ==
    Signalled /\ proc = "exited" /\ exitCode = 1 /\ connections > 0

---------------------------------------------------------------------------
(* The startup manager: SpecStartup *)

\* the command lines of startup.js
ArgumentLists == SUBSET {"--dev", "-d", "--skip-build", "--force-install", "--help", "-h"}

NextStartup ==
    \/ \E args \in ArgumentLists : Main(args)
    \/ \E nodeMajor \in {14, 16, 20}, npmFound \in BOOLEAN : SystemCheck(nodeMajor, npmFound)
    \/ \E removed, rootFound, rootInstalls, clientFound, clientInstalls \in BOOLEAN :
          DependencyCheck(removed, rootFound, rootInstalls, clientFound, clientInstalls)
    \/ \E envFile \in {"none", "noKey", "placeholder", "configured"} :
          EnvironmentCheck(envFile)
    \/ \E buildFound, builds \in BOOLEAN : BuildCheck(buildFound, builds)
    \/ StartServer
    \/ \E how \in {"returned", "SIGINT", "crashed"} : ServerEnds(how)

SpecStartup == Init /\ [][NextStartup]_vars

\* the checks that have run, by name, and those among them that failed
ChecksRunNames == [k \in 1..Len(checksRun) |-> checksRun[k].check]

FailedChecks == {k \in 1..Len(checksRun) : ~checksRun[k].ok}

RequiredChecks == <<"system", "dependencies", "environment">>

BuildCheckWanted == "--skip-build" \notin startArgs /\ ~IsDev(startArgs)

StartServerReached == startPc \in {"start", "serving"}

\* C23: startServer is reached exactly when the system, dependency and
\* environment checks have succeeded, in this order; a failed one of them is
\* the last check that runs and ends the process with exit code 1; the build
\* check, failed or left out, does not keep the server from starting.
C23_ServerStartsOnlyAfterChecks ==
    /\ [](/\ (StartServerReached \/ startPc = "build") =>
                /\ SubSeq(ChecksRunNames, 1, 3) = RequiredChecks
                /\ \A k \in 1..3 : checksRun[k].ok
          /\ StartServerReached =>
                Len(checksRun) = IF BuildCheckWanted THEN 4 ELSE 3
          /\ \A k \in FailedChecks :
                checksRun[k].check # "build"
                    => k = Len(checksRun) /\ startPc = "exited" /\ startExit = 1
          /\ \A k \in 1..Len(checksRun) :
                k <= 3 => checksRun[k].check = RequiredChecks[k])
    /\ [][/\ (startPc = "build" /\ startPc' # "build") => startPc' = "start"
          /\ (startPc \in {"system", "dependencies", "environment"}
                /\ startPc' \notin {startPc, "exited"})
                => (checksRun'[Len(checksRun')].ok /\ startExit' = NotExited)
          /\ (startPc = "environment" /\ startPc' = "start") => ~BuildCheckWanted
          /\ (startPc = "environment" /\ startPc' # startPc
                /\ checksRun'[Len(checksRun')].ok)
                => startPc' = (IF BuildCheckWanted THEN "build" ELSE "start")
         ]_vars

\* the server is started although the build check has failed
C23_Witness ==
    /\ startPc = "serving"
    /\ Len(checksRun) = 4
    /\ ~checksRun[4].ok

---------------------------------------------------------------------------
(* The video generation UI and the endpoints of the providers *)

\* the endpoint that serves each provider (POST)
ProviderEndpoint ==
    [gemini |-> "/api/generate-videos",
     falai |-> "/api/generate-videos-falai",
     kieai |-> "/api/generate-video-kieai"]

\* C24: a generation request goes to the endpoint of the selected provider
\* (FalAI: /api/generate-videos-falai, Kie.ai: /api/generate-video-kieai,
\* Gemini: /api/generate-videos), never to the endpoint of another provider.
C24_RequestGoesToSelectedProvider ==
    lastUse.provider \in Providers
        => lastUse.endpoint = ProviderEndpoint[lastUse.provider]

---------------------------------------------------------------------------
(* Termination of a batch: SpecBatch *)

\* batches of every length and shape, without options and with a numeric
\* duration (which makes the cost computation throw)
TerminationBodies ==
    {Body("array", list, o) :
        list \in BatchLists,
        o \in {NoOptions, Options(Num(8), "false", Undefined, "undefined")}}

\* a batch request that arrives over a connection, the provider's answers,
\* the delays, and the clients connecting and disconnecting meanwhile
NextBatch ==
    \/ \E body \in TerminationBodies : connections > 0 /\ Post(body)
    \/ RespondBatch
    \/ Tick
    \/ TimerFires
    \/ Connect
    \/ Disconnect

\* WF_vars(RespondBatch), with ENABLED <<RespondBatch>>_vars written out:
\* the step is possible exactly while a call awaits its HTTP response
ProviderCallsSettle ==
    []<>(pc # "awaitingProvider") \/ []<><<RespondBatch>>_vars

\* WF_vars(TimerFires), with ENABLED <<TimerFires>>_vars written out: the
\* step is possible exactly while the loop waits for a timer that is due
DueTimersFire ==
    []<>~(pc = "delaying" /\ TimerDue(sinceDone)) \/ []<><<TimerFires>>_vars

\* Every provider call settles (axios answers, fails, or times out after
\* 300000 ms), time passes, and a due timer fires.  Nothing is assumed about
\* the connections.
SpecBatch ==
    /\ Init
    /\ [][NextBatch]_vars
    /\ ProviderCallsSettle
    /\ WF_vars(Tick)
    /\ DueTimersFire

BatchRunning == pc \in {"awaitingProvider", "delaying"}

\* C25: a batch that has started returns, whatever calls fail and whether
\* or not a client is still connected, and when it returns every one of the N
\* segments has been processed.
C25_BatchTerminates ==
    /\ BatchRunning ~> (pc = "responded" /\ BatchReturned)
    /\ [](BatchReturned =>
            /\ batchResult.totalSegments = Len(segments)
            /\ Len(attempted) = Len(segments)
            /\ batchResult.successCount + batchResult.failureCount = Len(segments))
    /\ [][BatchRunning => (BatchRunning' \/ BatchReturned')]_vars

\* a batch of the longest list has returned, a call having failed, with no
\* client connected any more
C25_Witness ==
    /\ BatchReturned
    /\ Len(segments) = MaxSegments
    /\ batchResult.failureCount > 0
    /\ batchResult.successCount > 0
    /\ connections = 0

---------------------------------------------------------------------------
(* Provider successes and reported successes (specification Spec) *)

\* C26: a video is reported as failed only if the provider call failed: when
\* the provider has answered the request of a segment with 2xx, the entry of
\* that segment in videos has success true and carries a cost, whatever
\* options the route passed on.
C26_ProviderSuccessIsReportedSuccess ==
    \A k \in 1..Len(thrown) :
        thrown[k].cause.kind = "fulfilled" =>
            LET v == results[thrown[k].index + 1]
            IN  v.success /\ "cost" \in DOMAIN v

---------------------------------------------------------------------------
(* The VideoGenerator component: SpecGenerator *)

Settles == \E ok \in BOOLEAN : GenerationSettles(ok)

\* the client as in SpecClient; every request that was sent settles (fetch
\* resolves or rejects)
SpecGenerator == Init /\ [][NextClient]_vars /\ WF_vars(Settles)

\* C27: the videos and the error that are shown come from a request issued
\* for the provider that is selected now: selecting a provider clears both,
\* and the selection does not change while a request is in flight.
C27_ResultsBelongToSelectedAPI ==
    /\ [](/\ uiVideos \in {"none", selectedAPI}
          /\ uiError \in {"none", selectedAPI}
          /\ outstanding > 0 => requestFor = selectedAPI)
    /\ [][/\ selectedAPI' # selectedAPI => (uiVideos' = "none" /\ uiError' = "none")
          /\ outstanding > 0 => selectedAPI' = selectedAPI
         ]_vars

\* videos of FalAI are shown, FalAI being selected, after another provider's
\* results had been cleared
C27_Witness ==
    /\ uiVideos = "falai"
    /\ selectedAPI = "falai"
    /\ lastSelect.provider = "falai"
    /\ outstanding = 0

\* C28: at most one generation request is in flight; loading is true exactly
\* while a request is outstanding; no request starts while loading; and after
\* every request loading becomes false again.
C28_OneRequestInFlight ==
    /\ [](/\ outstanding <= 1
          /\ generating <=> outstanding = 1)
    /\ [][generating => outstanding' <= outstanding]_vars
    /\ (generating ~> ~generating)

\* a request in flight, started after an earlier one has brought videos
C28_Witness ==
    /\ generating
    /\ outstanding = 1
    /\ uiVideos # "none"

---------------------------------------------------------------------------
(* The estimate of the client and the bill of the server: SpecEstimate *)

\* the segments prop of the component: 1..MaxSegments standard segments
EstimateLists == {[k \in 1..n |-> SegStandard(k)] : n \in 1..MaxSegments}

\* the user selects, sets the options and generates; a FalAI request reaches
\* the route with the segments and options of the component, the batch runs,
\* and its response settles the request of the client (the behaviours end
\* with the first FalAI request)
NextEstimate ==
    \/ \E apiId \in Providers : SelectAPI(apiId)
    \/ \E key \in DOMAIN OptionChoices : \E value \in OptionChoices[key] :
          ChangeOption(key, value)
    \/ pc = "idle" /\ StartGeneration
    \/ \E list \in EstimateLists :
          /\ generating
          /\ requestFor = "falai"
          /\ Post(Body("array", list, SentOptions(videoOptions)))
    \/ RespondBatch
    \/ Tick
    \/ TimerFires
    \/ (generating /\ requestFor = "falai" /\ pc = "responded")
          /\ GenerationSettles(response.status = 200)
    \/ \E ok \in BOOLEAN : requestFor # "falai" /\ GenerationSettles(ok)

SpecEstimate == Init /\ [][NextEstimate]_vars

\* the batch of the request in flight has returned, every segment a success
AllSucceeded ==
    /\ generating
    /\ requestFor = "falai"
    /\ BatchReturned
    /\ batchResult.successCount = Len(segments)

\* C29: the estimate shown for FalAI equals the totalCost the server returns
\* for the same segments and options when every segment succeeds: segments x
\* seconds x rate, for 5s to 8s, with and without audio.
C29_EstimateEqualsTotalCost ==
    AllSucceeded =>
        /\ CostDisplay(selectedAPI, videoOptions, Len(segments)).text = "price"
        /\ CostDisplay(selectedAPI, videoOptions, Len(segments)).mills
              = batchResult.totalCost

\* three silent videos of 5 s have been generated
C29_Witness ==
    /\ AllSucceeded
    /\ Len(segments) = MaxSegments
    /\ videoOptions.duration = <<"5", "s">>
    /\ ~videoOptions.generateAudio

====
